---- MODULE Spec2Model ----
(***************************************************************************)
(* Edge-to-central telemetry pipeline of sidra-monitoring:                 *)
(*   edge/batching.py   BatchAggregator                                    *)
(*   edge/buffer.py     MetricBuffer (SQLite table "buffer")               *)
(*   edge/sender.py     CentralSender                                      *)
(*   edge/agent.py      EdgeAgent tasks                                    *)
(*   edge/config.py     EdgeConfig                                         *)
(*   edge/collectors/logs.py  LogCollector                                 *)
(*   edge/standalone_agent.py  the standalone agent's loop and buffer      *)
(*   central/ingest_api.py  ingest endpoints and downstream writers        *)
(*                                                                         *)
(* Values are fixed-point tenths (50.0 is 500); time is in whole seconds.  *)
(***************************************************************************)
EXTENDS Integers, Sequences, FiniteSets, TLC

VARIABLES
    now,               \* time.time()
    current_batch,     \* BatchAggregator._current_batch
    batch_start_time,  \* BatchAggregator._batch_start_time
    last_values,       \* BatchAggregator._last_values: metric name -> last stored value
    alert_cooldowns,   \* BatchAggregator._alert_cooldowns: alert key -> time
    call,              \* the last aggregator call: its name and argument
    ret,               \* what that call returned: None or a Batch
    skipped,           \* whether that call was dropped by dedup or cooldown
    first_item_time,   \* <<t>>: the first item of the current batch went in at t
    accepted,          \* alert key -> time and severity of the last alert of
                       \* the key that add_alert did not drop
    buffer,            \* MetricBuffer: the rows of table "buffer", by id
    next_id,           \* the AUTOINCREMENT id the next INSERT gets
    file_size,         \* os.path.getsize(self.path), in serialized items
    send,              \* the send_batch call of the sender: its position and locals
    alert_store,       \* central AlertStore._alerts
    written,           \* the last ingest request central handled: what
                       \* it wrote downstream and what it answered
    passed,            \* the batches the last agent step gave to send_batch
    batch_sender,      \* the _batch_sender task: asleep until `wake`, or in
                       \* send_batch
    flusher,           \* the flush_buffer call of the sender: its position
                       \* and locals, and whether the re-send it finished
                       \* last succeeded
    api_call,          \* the last request a client posted to the ingest
                       \* API: endpoint, payload, status answered, and the
                       \* sinks whose write failed
    config,            \* EdgeAgent.config: the EdgeConfig the agent was built with
    collector,         \* the collector and health-reporter tasks: where
                       \* each is in its loop,
                       \* and the metrics and alerts it holds
    tasks,             \* EdgeAgent._tasks: the state of each supervisor task
    start_state,       \* where start() is: in gather, or left by an error
    raised,            \* how many exceptions each collector loop raised
    error_log,         \* how many errors each collector loop logged
    log_file,          \* the lines of the log file the collector follows
    file_positions,    \* LogCollector._file_positions[path]
    collected,         \* what the last _collect_from_file read and returned
    truncated,         \* whether the file was truncated after the collector
                       \* had read it to its end, and not collected since
    standalone         \* standalone_agent.main: where its loop is, and the
                       \* rows of its MetricBuffer table, by id

aggVars == <<current_batch, batch_start_time, last_values, alert_cooldowns,
             call, ret, skipped, accepted, first_item_time>>

bufVars == <<buffer, next_id, file_size>>

centralVars == <<alert_store, written>>

agentVars == <<config, collector, tasks, start_state, raised, error_log>>

logVars == <<log_file, file_positions, collected, truncated>>

vars == <<now, aggVars, bufVars, send, centralVars, passed, batch_sender,
          flusher, api_call, agentVars, logVars, standalone>>

\* ------------------------------------------------------------ bounds

\* BatchingConfig.max_batch_size, scaled down from its default of 100.
max_batch_size == 2
\* Cap on the logs held by the current batch (the code has none).
MaxLogs == 2
\* The clock stops advancing here.
MaxTime == 120
\* Exceptions raised in the collector loops.
MaxErrors == 2
\* Lines the log file holds.
MaxFileLines == 3
\* Rows the standalone agent's buffer table holds.
MaxStandaloneRows == 4
\* The largest id a row of that table gets.
MaxStandaloneId == 6
\* The limit flush_buffer gives get_batch, scaled down from 50.
get_batch_limit == 2
\* LogCollectorConfig.max_lines_per_batch, scaled down from 1000.
max_lines_per_batch == 2
\* CentralSender.retry_count, scaled down from its default of 3.
retry_count == 1
\* BufferConfig.max_size_mb, in the space one serialized metric, alert or log
\* takes in the database file.
max_size_items == 4
\* The buffer stops taking rows once this many ids were given out.
MaxId == 2
\* The same, where flush_buffer is called again and again.
MaxBuffered == 3
\* The limit of get_batch in flush_buffer, scaled down from 100.
FlushLimit == 2
\* The retry_count column is counted up to here.
MaxRetryCount == 1
\* AlertStore.max_size, scaled down from its default of 1000.
alert_store_max_size == 2

\* ------------------------------------------------- program constants

max_batch_age == 60
CooldownCritical == 60
CooldownHigh == 300
CooldownWarning == 900
CooldownNormal == 3600
CooldownDefault == 300
\* 1.0 in tenths: the dedup threshold of _should_skip_metric.
DedupThreshold == 10
retry_delay == 5
\* EdgeConfig.central_retry_count as it is by default.
DefaultRetryCount == 3
timeout == 30
FlushRetries == 1
batch_interval == 30
RetryAfterDefault == 60
retention_hours == 24
\* LIMIT 1000 of the low-priority delete.
CleanupLimit == 1000

\* ------------------------------------------------------------ values

None == [none |-> TRUE]

Hostname == "h1"

\* The names whose lower-cased form contains 'percent'.
PercentNames == {"sidra_cpu_usage_percent"}

\* MetricPoint (batching.py:24-31); labels are {'host': hostname} throughout.
MetricPoints ==
    [name : {"sidra_cpu_usage_percent"}, value : {500, 509, 515},
     priority : {"CRITICAL", "NORMAL"}]
    \cup
    [name : {"sidra_load_1m"}, value : {0, 500}, priority : {"NORMAL"}]

AlertMetrics == {"cpu_usage"}
Severities == {"critical", "high", "warning", "info"}

\* Alert (batching.py:34-44).
Alerts == [metric : AlertMetrics, severity : Severities, host : {Hostname}]

LogLevels == {"error", "info"}
LogEntries == [level : LogLevels, source : {"syslog"}]
\* The lists add_logs is called with.
LogLists ==
    {<<l>> : l \in LogEntries} \cup
    {<<l1, l2>> : l1 \in LogEntries, l2 \in LogEntries}

Abs(x) == IF x < 0 THEN -x ELSE x

\* Batch(host=...) with the dataclass defaults (batching.py:47-55).
EmptyBatch(host, t) ==
    [metrics |-> <<>>, alerts |-> <<>>, logs |-> <<>>,
     timestamp |-> t, host |-> host, priority |-> "NORMAL"]

\* ------------------------------------------------------- aggregator

\* 'percent' in metric.name.lower()
IsPercentName(name) == name \in PercentNames

\* Mutant of should_skip_metric: the percent branch is lost and every name
\* goes through the relative rule.
should_skip_metric_relative_only(metric) ==
    IF metric.name \notin DOMAIN last_values THEN FALSE
    ELSE LET last_value == last_values[metric.name] IN
         IF last_value # 0
         THEN Abs(metric.value - last_value) * 100 < Abs(last_value)
         ELSE FALSE

\* _should_skip_metric: compares with the last STORED value of the name.
\* abs((v - last) / last) * 100 < 1.0 is abs(v - last) * 100 < abs(last).
should_skip_metric(metric) ==
    IF metric.name \notin DOMAIN last_values THEN FALSE
    ELSE LET last_value == last_values[metric.name] IN
         IF IsPercentName(metric.name)
         THEN Abs(metric.value - last_value) < DedupThreshold
         ELSE IF last_value # 0
              THEN Abs(metric.value - last_value) * 100 < Abs(last_value)
              ELSE FALSE

\* The cooldown_seconds table of _in_cooldown with its .get default.
cooldown_seconds(severity) ==
    CASE severity = "critical" -> CooldownCritical
      [] severity = "high" -> CooldownHigh
      [] severity = "warning" -> CooldownWarning
      [] severity = "normal" -> CooldownNormal
      [] OTHER -> CooldownDefault

\* f"{alert.metric}:{alert.host}"
AlertKey(alert) == <<alert.metric, alert.host>>

\* Mutant of in_cooldown: the window of a critical alert for every severity.
in_cooldown_critical_window(alert_key, severity) ==
    IF alert_key \notin DOMAIN alert_cooldowns THEN FALSE
    ELSE (now - alert_cooldowns[alert_key]) < CooldownCritical

\* Mutant of in_cooldown: the window of the alert that set the cooldown.
in_cooldown_window_of_setter(alert_key, severity) ==
    IF alert_key \notin DOMAIN alert_cooldowns THEN FALSE
    ELSE (now - alert_cooldowns[alert_key])
             < cooldown_seconds(accepted[alert_key].severity)

\* _in_cooldown
in_cooldown(alert_key, severity) ==
    IF alert_key \notin DOMAIN alert_cooldowns THEN FALSE
    ELSE (now - alert_cooldowns[alert_key]) < cooldown_seconds(severity)

\* _is_batch_empty
is_batch_empty(batch) ==
    Len(batch.metrics) = 0 /\ Len(batch.alerts) = 0 /\ Len(batch.logs) = 0

\* _create_immediate_batch
create_immediate_batch(metrics, alerts) ==
    [metrics |-> metrics, alerts |-> alerts, logs |-> <<>>,
     timestamp |-> now, host |-> current_batch.host, priority |-> "CRITICAL"]

\* _check_batch_ready on the batch as the caller left it: hands the batch out
\* and resets (_reset_batch) when it is full or old enough.
check_batch_ready(batch) ==
    LET batch_age == now - batch_start_time
        batch_size == Len(batch.metrics) + Len(batch.alerts)
    IN IF batch_size >= max_batch_size \/ batch_age >= max_batch_age
       THEN /\ ret' = batch
            /\ current_batch' = EmptyBatch(batch.host, now)
            /\ batch_start_time' = now
            /\ first_item_time' = <<>>
       ELSE /\ ret' = None
            /\ current_batch' = batch
            /\ first_item_time' = IF is_batch_empty(batch) THEN <<>>
                                  ELSE IF first_item_time = <<>> THEN <<now>>
                                  ELSE first_item_time
            /\ UNCHANGED batch_start_time

\* Mutant of add_metric: dedup is tried before the CRITICAL bypass.
add_metric_dedup_first(metric) ==
    /\ call' = [op |-> "add_metric", arg |-> metric]
    /\ IF should_skip_metric(metric)
       THEN /\ ret' = None
            /\ skipped' = TRUE
            /\ UNCHANGED <<current_batch, batch_start_time, first_item_time, last_values>>
       ELSE IF metric.priority = "CRITICAL"
       THEN /\ ret' = create_immediate_batch(<<metric>>, <<>>)
            /\ skipped' = FALSE
            /\ UNCHANGED <<current_batch, batch_start_time, first_item_time, last_values>>
       ELSE /\ skipped' = FALSE
            /\ last_values' = (metric.name :> metric.value) @@ last_values
            /\ check_batch_ready(
                 [current_batch EXCEPT !.metrics = Append(@, metric)])
    /\ UNCHANGED <<alert_cooldowns, accepted>>

\* Mutant of add_metric: the last value is stored before the CRITICAL bypass.
add_metric_store_first(metric) ==
    /\ call' = [op |-> "add_metric", arg |-> metric]
    /\ IF metric.priority = "CRITICAL"
       THEN /\ ret' = create_immediate_batch(<<metric>>, <<>>)
            /\ skipped' = FALSE
            /\ last_values' = (metric.name :> metric.value) @@ last_values
            /\ UNCHANGED <<current_batch, batch_start_time, first_item_time>>
       ELSE IF should_skip_metric(metric)
       THEN /\ ret' = None
            /\ skipped' = TRUE
            /\ UNCHANGED <<current_batch, batch_start_time, first_item_time, last_values>>
       ELSE /\ skipped' = FALSE
            /\ last_values' = (metric.name :> metric.value) @@ last_values
            /\ check_batch_ready(
                 [current_batch EXCEPT !.metrics = Append(@, metric)])
    /\ UNCHANGED <<alert_cooldowns, accepted>>

add_metric(metric) ==
    /\ call' = [op |-> "add_metric", arg |-> metric]
    /\ IF metric.priority = "CRITICAL"
       THEN /\ ret' = create_immediate_batch(<<metric>>, <<>>)
            /\ skipped' = FALSE
            /\ UNCHANGED <<current_batch, batch_start_time, first_item_time, last_values>>
       ELSE IF should_skip_metric(metric)
       THEN /\ ret' = None
            /\ skipped' = TRUE
            /\ UNCHANGED <<current_batch, batch_start_time, first_item_time, last_values>>
       ELSE /\ skipped' = FALSE
            /\ last_values' = (metric.name :> metric.value) @@ last_values
            /\ check_batch_ready(
                 [current_batch EXCEPT !.metrics = Append(@, metric)])
    /\ UNCHANGED <<alert_cooldowns, accepted>>

\* Mutant of add_alert: the immediate path returns before the cooldown
\* timestamp is recorded.
add_alert_no_record(alert) ==
    /\ call' = [op |-> "add_alert", arg |-> alert]
    /\ IF in_cooldown(AlertKey(alert), alert.severity)
       THEN /\ ret' = None
            /\ skipped' = TRUE
            /\ UNCHANGED <<current_batch, batch_start_time, first_item_time, alert_cooldowns,
                           accepted>>
       ELSE /\ skipped' = FALSE
            /\ accepted' = (AlertKey(alert) :>
                               [time |-> now, severity |-> alert.severity])
                           @@ accepted
            /\ IF alert.severity \in {"critical", "high"}
               THEN /\ ret' = create_immediate_batch(<<>>, <<alert>>)
                    /\ UNCHANGED <<current_batch, batch_start_time, first_item_time,
                                   alert_cooldowns>>
               ELSE /\ alert_cooldowns' =
                          (AlertKey(alert) :> now) @@ alert_cooldowns
                    /\ check_batch_ready(
                         [current_batch EXCEPT !.alerts = Append(@, alert)])
    /\ UNCHANGED last_values

add_alert(alert) ==
    /\ call' = [op |-> "add_alert", arg |-> alert]
    /\ IF in_cooldown(AlertKey(alert), alert.severity)
       THEN /\ ret' = None
            /\ skipped' = TRUE
            /\ UNCHANGED <<current_batch, batch_start_time, first_item_time, alert_cooldowns,
                           accepted>>
       ELSE /\ skipped' = FALSE
            /\ accepted' = (AlertKey(alert) :>
                               [time |-> now, severity |-> alert.severity])
                           @@ accepted
            /\ alert_cooldowns' = (AlertKey(alert) :> now) @@ alert_cooldowns
            /\ IF alert.severity \in {"critical", "high"}
               THEN /\ ret' = create_immediate_batch(<<>>, <<alert>>)
                    /\ UNCHANGED <<current_batch, batch_start_time, first_item_time>>
               ELSE check_batch_ready(
                      [current_batch EXCEPT !.alerts = Append(@, alert)])
    /\ UNCHANGED last_values

\* [l for l in logs if l.get('level') in ('critical', 'error')]
critical_logs(logs) ==
    SelectSeq(logs, LAMBDA l : l.level \in {"critical", "error"})

add_logs(logs) ==
    /\ call' = [op |-> "add_logs", arg |-> logs]
    /\ skipped' = FALSE
    /\ IF critical_logs(logs) # <<>>
       THEN /\ ret' = [metrics |-> <<>>, alerts |-> <<>>,
                       logs |-> critical_logs(logs), timestamp |-> now,
                       host |-> current_batch.host, priority |-> "CRITICAL"]
            /\ UNCHANGED <<current_batch, batch_start_time, first_item_time>>
       ELSE check_batch_ready(
              [current_batch EXCEPT !.logs = @ \o logs])
    /\ UNCHANGED <<last_values, alert_cooldowns, accepted>>

\* Mutant of flush: the batch is handed out and not reset.
flush_without_reset ==
    /\ call' = [op |-> "flush", arg |-> None]
    /\ skipped' = FALSE
    /\ ret' = IF is_batch_empty(current_batch) THEN None ELSE current_batch
    /\ UNCHANGED <<current_batch, batch_start_time, first_item_time>>
    /\ UNCHANGED <<last_values, alert_cooldowns, accepted>>

flush ==
    /\ call' = [op |-> "flush", arg |-> None]
    /\ skipped' = FALSE
    /\ IF is_batch_empty(current_batch)
       THEN /\ ret' = None
            /\ UNCHANGED <<current_batch, batch_start_time, first_item_time>>
       ELSE /\ ret' = current_batch
            /\ current_batch' = EmptyBatch(current_batch.host, now)
            /\ batch_start_time' = now
            /\ first_item_time' = <<>>
    /\ UNCHANGED <<last_values, alert_cooldowns, accepted>>

\* BatchAggregator.__init__ followed by set_host (agent.py:71-76).
InitAggregator ==
    /\ current_batch = EmptyBatch(Hostname, 0)
    /\ batch_start_time = 0
    /\ last_values = <<>>
    /\ alert_cooldowns = <<>>
    /\ accepted = <<>>
    /\ first_item_time = <<>>
    /\ call = [op |-> "init", arg |-> None]
    /\ ret = None
    /\ skipped = FALSE

\* ----------------------------------------------------------- buffer

Min(a, b) == IF a < b THEN a ELSE b
Max(a, b) == IF a > b THEN a ELSE b

Pow2(n) == 2 ^ n

\* is_full: size_bytes() >= max_size_mb * 1024 * 1024, on the file size.
is_full(size) == size >= max_size_items

\* The space a row takes: the items of its payload (len(json.dumps(data))).
data_size(data) ==
    Len(data.payload.metrics) + Len(data.payload.alerts)
        + Len(data.payload.logs)

\* The space the rows take in the file once no page is free.
rows_size(rows) ==
    LET S[i \in 0..Len(rows)] ==
            IF i = 0 THEN 0 ELSE S[i - 1] + data_size(rows[i].data)
    IN S[Len(rows)]

\* The rows a "DELETE ... WHERE created_at < cutoff" leaves.
delete_older(rows, cutoff) ==
    SelectSeq(rows, LAMBDA r : ~(r.created_at < cutoff))

\* The id sets "SELECT id FROM buffer WHERE priority >= 2 ORDER BY created_at
\* ASC LIMIT 1000" can return: the oldest low-priority rows, ties in any order.
low_priority_selections(rows) ==
    LET low == {i \in 1..Len(rows) : rows[i].priority >= 2}
        n == Min(CleanupLimit, Cardinality(low))
    IN {D \in SUBSET low :
          /\ Cardinality(D) = n
          /\ \A i \in D : \A j \in low \ D :
                rows[i].created_at <= rows[j].created_at}

\* rows without the positions in D
without(rows, D) ==
    LET keep == {i \in 1..Len(rows) : i \notin D}
        F[i \in 0..Len(rows)] ==
            IF i = 0 THEN <<>>
            ELSE IF i \in keep THEN Append(F[i - 1], rows[i]) ELSE F[i - 1]
    IN F[Len(rows)]

\* _cleanup_if_needed after the INSERT left `rows` in a file of size `size`.
\* A DELETE frees pages inside the file and leaves its size alone, so the
\* second is_full() sees the size the first one saw; VACUUM then shrinks the
\* file to the rows that are left.
cleanup_results(rows, size) ==
    IF ~is_full(size) THEN {[rows |-> rows, size |-> size]}
    ELSE LET cutoff == now - (retention_hours * 3600)
             kept == delete_older(rows, cutoff)
         IN IF is_full(size)
            THEN {[rows |-> without(kept, D),
                   size |-> rows_size(without(kept, D))] :
                     D \in low_priority_selections(kept)}
            ELSE {[rows |-> kept, size |-> rows_size(kept)]}

\* MetricBuffer.add: INSERT, commit, _cleanup_if_needed.
buffer_add(data, priority) ==
    LET row == [id |-> next_id, data |-> data, priority |-> priority,
                created_at |-> now, retry_count |-> 0, last_retry |-> None]
        rows == Append(buffer, row)
        size == Max(file_size, rows_size(rows))
    IN /\ next_id' = next_id + 1
       /\ \E r \in cleanup_results(rows, size) :
             /\ buffer' = r.rows
             /\ file_size' = r.size

\* MetricBuffer.count
buffer_count == Len(buffer)

InitBuffer ==
    /\ buffer = <<>>
    /\ next_id = 1
    /\ file_size = 0

\* ---------------------------------------------------------- central

\* Mutant of alert_store_add: a full store keeps what it has.
alert_store_add_keep_oldest(store, alert) ==
    LET appended == Append(store, alert)
    IN IF Len(appended) > alert_store_max_size
       THEN SubSeq(appended, 1, alert_store_max_size)
       ELSE appended

\* AlertStore.add
alert_store_add(store, alert) ==
    LET appended == Append(store, alert)
    IN IF Len(appended) > alert_store_max_size
       THEN SubSeq(appended, Len(appended) - alert_store_max_size + 1,
                   Len(appended))
       ELSE appended

RECURSIVE alert_store_add_all(_, _)
alert_store_add_all(store, alerts) ==
    IF alerts = <<>> THEN store
    ELSE alert_store_add_all(alert_store_add(store, Head(alerts)), Tail(alerts))

NoWrites == [tsdb |-> <<>>, oo_logs |-> <<>>, oo_alerts |-> <<>>]

\* Mutant of stamp_labels: the host label is set whatever the labels hold.
stamp_labels_overwrite(labels, host) ==
    IF host # ""
    THEN {kv \in labels : kv[1] # "host"} \cup {<<"host", host>>}
    ELSE labels

\* if payload.host and 'host' not in metric.labels:
\*     metric.labels['host'] = payload.host
\* Labels are a set of <<key, value>> pairs.
stamp_labels(labels, host) ==
    IF host # "" /\ ~(\E kv \in labels : kv[1] = "host")
    THEN labels \cup {<<"host", host>>}
    ELSE labels

stamp_metrics(payload) ==
    [i \in 1..Len(payload.metrics) |->
        [name |-> payload.metrics[i].name,
         value |-> payload.metrics[i].value,
         labels |-> stamp_labels(payload.metrics[i].labels, payload.host)]]

\* log_dict['host'] = payload.host
stamp_logs(payload) ==
    [i \in 1..Len(payload.logs) |->
        [level |-> payload.logs[i].level,
         source |-> payload.logs[i].source,
         host |-> payload.host]]

\* What a handler did with a request: the status it answered, the alert
\* store it left, what it wrote to VictoriaMetrics and to the two OpenObserve
\* streams, and the sinks whose write failed.
Handled(status, store, tsdb, oo_alerts, oo_logs, failed) ==
    [status |-> status, store |-> store,
     writes |-> [tsdb |-> tsdb, oo_logs |-> oo_logs, oo_alerts |-> oo_alerts],
     failed |-> failed]

\* ingest_metrics on a parsed MetricsPayload: the host label is stamped, the
\* metrics are written to VictoriaMetrics; a failed write is a 500.
ingest_metrics(payload, vm_ok) ==
    IF payload.metrics = <<>>
    THEN Handled(200, alert_store, <<>>, <<>>, <<>>, {})
    ELSE Handled(IF vm_ok THEN 200 ELSE 500,
                 alert_store,
                 IF vm_ok THEN stamp_metrics(payload) ELSE <<>>,
                 <<>>, <<>>,
                 IF vm_ok THEN {} ELSE {"tsdb"})

\* ingest_alerts on a parsed AlertsPayload (metrics and logs of the request
\* body are no fields of it, and the bodies here carry no single 'alert'):
\* every alert goes to the alert store, then to OpenObserve; the result of
\* that write is not looked at.
ingest_alerts(payload, oo_ok) ==
    LET alerts == [i \in 1..Len(payload.alerts) |->
                     IF payload.alerts[i].host = "" /\ payload.host # ""
                     THEN [payload.alerts[i] EXCEPT !.host = payload.host]
                     ELSE payload.alerts[i]]
    IN IF payload.alerts = <<>>
       THEN Handled(200, alert_store, <<>>, <<>>, <<>>, {})
       ELSE Handled(200,
                    alert_store_add_all(alert_store, alerts),
                    <<>>,
                    IF oo_ok THEN alerts ELSE <<>>,
                    <<>>,
                    IF oo_ok THEN {} ELSE {"oo_alerts"})

\* ingest_logs on a parsed LogsPayload: the host is added, the logs are
\* written to OpenObserve; a failed write is a 500.
ingest_logs(payload, oo_ok) ==
    IF payload.logs = <<>>
    THEN Handled(200, alert_store, <<>>, <<>>, <<>>, {})
    ELSE Handled(IF oo_ok THEN 200 ELSE 500,
                 alert_store,
                 <<>>, <<>>,
                 IF oo_ok THEN stamp_logs(payload) ELSE <<>>,
                 IF oo_ok THEN {} ELSE {"oo_logs"})

\* ingest_batch on a parsed BatchPayload: metrics, alerts and logs each go to
\* their writer; none of the three results is looked at.
ingest_batch(payload, vm_ok, oo_alerts_ok, oo_logs_ok) ==
    LET alerts == [i \in 1..Len(payload.alerts) |->
                     IF payload.alerts[i].host = ""
                     THEN [payload.alerts[i] EXCEPT !.host = payload.host]
                     ELSE payload.alerts[i]]
    IN Handled(200,
               alert_store_add_all(alert_store, alerts),
               IF vm_ok THEN stamp_metrics(payload) ELSE <<>>,
               IF oo_alerts_ok THEN alerts ELSE <<>>,
               IF oo_logs_ok THEN stamp_logs(payload) ELSE <<>>,
               (IF payload.metrics # <<>> /\ ~vm_ok THEN {"tsdb"} ELSE {})
               \cup (IF payload.alerts # <<>> /\ ~oo_alerts_ok
                     THEN {"oo_alerts"} ELSE {})
               \cup (IF payload.logs # <<>> /\ ~oo_logs_ok
                     THEN {"oo_logs"} ELSE {}))

\* The route table of create_app for the three endpoints the sender posts to.
ingest(endpoint, payload, vm_ok, oo_ok) ==
    CASE endpoint = "/api/v1/ingest/alerts" -> ingest_alerts(payload, oo_ok)
      [] endpoint = "/api/v1/ingest/logs" -> ingest_logs(payload, oo_ok)
      [] OTHER -> ingest_metrics(payload, vm_ok)

\* xs[-count:] of Python: -0 is 0, so a count of 0 slices from the start.
slice_last(xs, count) ==
    IF count = 0 THEN xs
    ELSE IF count < 0 THEN SubSeq(xs, Min(-count, Len(xs)) + 1, Len(xs))
    ELSE SubSeq(xs, Len(xs) - Min(count, Len(xs)) + 1, Len(xs))

\* AlertStore.get_recent
get_recent(store, count) == slice_last(store, count)

\* AlertStore.get_by_severity
get_by_severity(store, severity, count) ==
    slice_last(SelectSeq(store, LAMBDA a : a.severity = severity), count)

\* get_recent_alerts: GET /api/v1/alerts/recent?count=
get_recent_alerts(store, count) ==
    LET alerts == get_recent(store, count)
    IN [count |-> Len(alerts), alerts |-> alerts]

\* get_critical_alerts: GET /api/v1/alerts/critical?count=
get_critical_alerts(store, count) ==
    LET alerts == get_by_severity(store, "critical", count)
    IN [count |-> Len(alerts), alerts |-> alerts]

\* No client has posted anything yet.
NoCall == [endpoint |-> "", payload |-> None, status |-> 0, failed |-> {}]

InitCentral ==
    /\ alert_store = <<>>
    /\ written = NoWrites

\* ----------------------------------------------------------- sender

\* _serialize_batch: the metric priority is not part of the payload.
serialize_batch(batch) ==
    [timestamp |-> batch.timestamp,
     host |-> batch.host,
     priority |-> batch.priority,
     metrics |-> [i \in 1..Len(batch.metrics) |->
                    [name |-> batch.metrics[i].name,
                     value |-> batch.metrics[i].value,
                     labels |-> {<<"host", Hostname>>}]],
     alerts |-> batch.alerts,
     logs |-> batch.logs]

\* The endpoint selection of send_batch.
select_endpoint(batch) ==
    IF batch.alerts # <<>> THEN "/api/v1/ingest/alerts"
    ELSE IF batch.logs # <<>> THEN "/api/v1/ingest/logs"
    ELSE "/api/v1/ingest/metrics"

\* What one _send_once can come back with: a response of central's handler,
\* a response injected in front of it, or no response at all.
Outcomes ==
    {[kind |-> "central", vm_ok |-> v, oo_ok |-> o, retry_after |-> 0] :
        v \in BOOLEAN, o \in BOOLEAN}
    \cup {[kind |-> "status", status |-> 400, retry_after |-> 0],
          [kind |-> "status", status |-> 503, retry_after |-> 0],
          \* 429 without a Retry-After header, and with "Retry-After: 0"
          [kind |-> "status", status |-> 429, retry_after |-> RetryAfterDefault],
          [kind |-> "status", status |-> 429, retry_after |-> 0],
          \* asyncio.TimeoutError or aiohttp.ClientError
          [kind |-> "error", status |-> 0, retry_after |-> 0]}

\* _send_once: the SendResult for the response.
send_once_result(status, retry_after) ==
    [success |-> status \in {200, 201, 202, 204},
     status_code |-> status,
     retry_after |-> IF status = 429 THEN retry_after ELSE 0]

\* "All N attempts failed"
AllFailed == [success |-> FALSE, status_code |-> 0, retry_after |-> 0]

IdleSend ==
    [pc |-> "idle", batch |-> None, endpoint |-> "", attempt |-> 0,
     slept |-> <<>>, responses |-> <<>>, result |-> None, count_before |-> 0]

\* send_batch up to its first await: serialize, select the endpoint.  No
\* request of this call has written anything downstream yet.
send_batch_start(batch) ==
    /\ send.pc # "sending"
    /\ send' = [pc |-> "sending", batch |-> batch,
                endpoint |-> select_endpoint(batch), attempt |-> 0,
                slept |-> <<>>, responses |-> <<>>, result |-> None,
                count_before |-> buffer_count]
    /\ written' = NoWrites
    /\ UNCHANGED <<bufVars, alert_store>>

\* Mutant of send_batch_finish: a client error is not buffered.
send_batch_finish_drop_4xx(result, slept, responses) ==
    /\ send' = [send EXCEPT !.pc = "done", !.result = result, !.slept = slept,
                            !.responses = responses,
                            !.attempt = send.attempt + 1]
    /\ IF ~result.success /\ ~(400 <= result.status_code /\ result.status_code < 500)
       THEN buffer_add([endpoint |-> send.endpoint,
                        payload |-> serialize_batch(send.batch),
                        timestamp |-> send.batch.timestamp],
                       IF send.batch.priority = "CRITICAL" THEN 0 ELSE 2)
       ELSE UNCHANGED bufVars

\* Mutant of send_batch_finish: every failed batch is buffered as normal.
send_batch_finish_priority_2(result, slept, responses) ==
    /\ send' = [send EXCEPT !.pc = "done", !.result = result, !.slept = slept,
                            !.responses = responses,
                            !.attempt = send.attempt + 1]
    /\ IF ~result.success
       THEN buffer_add([endpoint |-> send.endpoint,
                        payload |-> serialize_batch(send.batch),
                        timestamp |-> send.batch.timestamp],
                       2)
       ELSE UNCHANGED bufVars

\* The end of send_batch once _send_with_retry returned `result`: a failed
\* batch is appended to the buffer.
send_batch_finish(result, slept, responses) ==
    /\ send' = [send EXCEPT !.pc = "done", !.result = result, !.slept = slept,
                            !.responses = responses,
                            !.attempt = send.attempt + 1]
    /\ IF ~result.success
       THEN buffer_add([endpoint |-> send.endpoint,
                        payload |-> serialize_batch(send.batch),
                        timestamp |-> send.batch.timestamp],
                       IF send.batch.priority = "CRITICAL" THEN 0 ELSE 2)
       ELSE UNCHANGED bufVars

\* Mutant of send_attempt: the loop runs once more (range(retries + 2)).
send_attempt_one_more(outcome) ==
    /\ send.pc = "sending"
    /\ LET response ==
             IF outcome.kind = "central"
             THEN ingest(send.endpoint, serialize_batch(send.batch),
                         outcome.vm_ok, outcome.oo_ok)
             ELSE [status |-> outcome.status, store |-> alert_store,
                   writes |-> written]
           result == send_once_result(response.status, outcome.retry_after)
           responses == Append(send.responses, result)
           last == send.attempt = config.central_retry_count + 1
       IN /\ alert_store' = response.store
          /\ written' = response.writes
          /\ IF result.success
             THEN send_batch_finish(result, send.slept, responses)
             ELSE IF result.status_code = 429 /\ result.retry_after # 0
             THEN LET slept == Append(send.slept, result.retry_after)
                  IN IF last
                     THEN send_batch_finish(AllFailed, slept, responses)
                     ELSE /\ send' = [send EXCEPT !.attempt = @ + 1,
                                                  !.slept = slept,
                                                  !.responses = responses]
                          /\ UNCHANGED bufVars
             ELSE IF 400 <= result.status_code /\ result.status_code < 500
             THEN send_batch_finish(result, send.slept, responses)
             ELSE IF last
             THEN send_batch_finish(AllFailed, send.slept, responses)
             ELSE /\ send' = [send EXCEPT
                                !.attempt = @ + 1,
                                !.slept = Append(@, retry_delay *
                                                    Pow2(send.attempt)),
                                !.responses = responses]
                  /\ UNCHANGED bufVars

\* Mutant of send_attempt: the backoff grows by retry_delay each time.
send_attempt_linear_backoff(outcome) ==
    /\ send.pc = "sending"
    /\ LET response ==
             IF outcome.kind = "central"
             THEN ingest(send.endpoint, serialize_batch(send.batch),
                         outcome.vm_ok, outcome.oo_ok)
             ELSE [status |-> outcome.status, store |-> alert_store,
                   writes |-> written]
           result == send_once_result(response.status, outcome.retry_after)
           responses == Append(send.responses, result)
           last == send.attempt = config.central_retry_count
       IN /\ alert_store' = response.store
          /\ written' = response.writes
          /\ IF result.success
             THEN send_batch_finish(result, send.slept, responses)
             ELSE IF result.status_code = 429 /\ result.retry_after # 0
             THEN LET slept == Append(send.slept, result.retry_after)
                  IN IF last
                     THEN send_batch_finish(AllFailed, slept, responses)
                     ELSE /\ send' = [send EXCEPT !.attempt = @ + 1,
                                                  !.slept = slept,
                                                  !.responses = responses]
                          /\ UNCHANGED bufVars
             ELSE IF 400 <= result.status_code /\ result.status_code < 500
             THEN send_batch_finish(result, send.slept, responses)
             ELSE IF last
             THEN send_batch_finish(AllFailed, send.slept, responses)
             ELSE /\ send' = [send EXCEPT
                                !.attempt = @ + 1,
                                !.slept = Append(@, retry_delay *
                                                    (send.attempt + 1)),
                                !.responses = responses]
                  /\ UNCHANGED bufVars

\* One iteration of the loop of _send_with_retry inside send_batch, with the
\* sleep that follows it.
send_attempt(outcome) ==
    /\ send.pc = "sending"
    /\ LET response ==
             IF outcome.kind = "central"
             THEN ingest(send.endpoint, serialize_batch(send.batch),
                         outcome.vm_ok, outcome.oo_ok)
             ELSE [status |-> outcome.status, store |-> alert_store,
                   writes |-> written]
           result == send_once_result(response.status, outcome.retry_after)
           responses == Append(send.responses, result)
           last == send.attempt = config.central_retry_count
       IN /\ alert_store' = response.store
          /\ written' = response.writes
          /\ IF result.success
             THEN send_batch_finish(result, send.slept, responses)
             ELSE IF result.status_code = 429 /\ result.retry_after # 0
             THEN LET slept == Append(send.slept, result.retry_after)
                  IN IF last
                     THEN send_batch_finish(AllFailed, slept, responses)
                     ELSE /\ send' = [send EXCEPT !.attempt = @ + 1,
                                                  !.slept = slept,
                                                  !.responses = responses]
                          /\ UNCHANGED bufVars
             ELSE IF 400 <= result.status_code /\ result.status_code < 500
             THEN send_batch_finish(result, send.slept, responses)
             ELSE IF last
             THEN send_batch_finish(AllFailed, send.slept, responses)
             ELSE /\ send' = [send EXCEPT
                                !.attempt = @ + 1,
                                !.slept = Append(@, retry_delay *
                                                    Pow2(send.attempt)),
                                !.responses = responses]
                  /\ UNCHANGED bufVars

InitSender == send = IdleSend

\* ----------------------------------------------------- flush_buffer

\* MetricBuffer.remove
buffer_remove(rows, item_ids) ==
    SelectSeq(rows, LAMBDA r : r.id \notin item_ids)

\* MetricBuffer.mark_retry
mark_retry(rows, item_id) ==
    [i \in 1..Len(rows) |->
        IF rows[i].id = item_id
        THEN [rows[i] EXCEPT !.retry_count = Min(@ + 1, MaxRetryCount),
                             !.last_retry = now]
        ELSE rows[i]]

\* Mutant of OrderedBefore: ORDER BY created_at ASC
OrderedBefore_by_age(a, b) == a.created_at <= b.created_at

\* ORDER BY priority ASC, created_at ASC
OrderedBefore(a, b) ==
    \/ a.priority < b.priority
    \/ a.priority = b.priority /\ a.created_at <= b.created_at

\* MetricBuffer.get_batch: the lists the SELECT can return, rows that tie in
\* (priority, created_at) in any order.
get_batch(rows, limit) ==
    LET n == Min(limit, Len(rows))
        picks == {q \in [1..n -> 1..Len(rows)] :
                    /\ \A i, j \in 1..n : i < j =>
                          /\ q[i] # q[j]
                          /\ OrderedBefore(rows[q[i]], rows[q[j]])
                    /\ \A k \in 1..Len(rows) :
                          (\A i \in 1..n : q[i] # k) =>
                             \A i \in 1..n : OrderedBefore(rows[q[i]], rows[k])}
    IN {[i \in 1..n |-> rows[q[i]]] : q \in picks}

\* healthy is CentralSender._healthy, False until a health check succeeds.
IdleFlusher ==
    [pc |-> "idle", items |-> <<>>, idx |-> 0, attempt |-> 0, sent_count |-> 0,
     last_success |-> FALSE, healthy |-> FALSE]

\* Mutant of flush_buffer_start: the result of check_health is not looked at.
flush_buffer_start_whatever_health(healthy) ==
    /\ flusher.pc # "sending"
    /\ \E items \in get_batch(buffer, FlushLimit) :
          flusher' = [IdleFlusher EXCEPT
                        !.pc = IF items = <<>> THEN "done" ELSE "sending",
                        !.items = items,
                        !.idx = IF items = <<>> THEN 0 ELSE 1,
                        !.healthy = healthy]
    /\ UNCHANGED <<bufVars, centralVars>>

\* flush_buffer up to its loop: the health check, then get_batch.
flush_buffer_start(healthy) ==
    /\ flusher.pc # "sending"
    /\ IF ~healthy
       THEN flusher' = [IdleFlusher EXCEPT !.pc = "done"]
       ELSE \E items \in get_batch(buffer, FlushLimit) :
               flusher' = [IdleFlusher EXCEPT
                             !.pc = IF items = <<>> THEN "done" ELSE "sending",
                             !.items = items,
                             !.idx = IF items = <<>> THEN 0 ELSE 1,
                             !.healthy = TRUE]
    /\ UNCHANGED <<bufVars, centralVars>>

\* flush_buffer goes to the next item, or returns sent_count: its locals
\* are gone then.
flusher_next(sent_count, success) ==
    IF flusher.idx = Len(flusher.items)
    THEN [IdleFlusher EXCEPT !.pc = "done", !.sent_count = sent_count,
                             !.last_success = success,
                             !.healthy = flusher.healthy]
    ELSE [flusher EXCEPT !.idx = @ + 1, !.attempt = 0,
                         !.sent_count = sent_count,
                         !.last_success = success]

\* Mutant of flush_item_done: the item is removed whatever the result.
flush_item_done_always_remove(result) ==
    LET item == flusher.items[flusher.idx]
    IN /\ buffer' = buffer_remove(buffer, {item.id})
       /\ flusher' = flusher_next(flusher.sent_count + 1, result.success)
       /\ UNCHANGED <<next_id, file_size>>

\* The body of the loop of flush_buffer once _send_with_retry returned
\* `result` for the item in hand: remove it or mark it, go to the next one.
flush_item_done(result) ==
    LET item == flusher.items[flusher.idx]
    IN /\ buffer' = IF result.success
                    THEN buffer_remove(buffer, {item.id})
                    ELSE mark_retry(buffer, item.id)
       /\ flusher' = flusher_next(IF result.success
                                  THEN flusher.sent_count + 1
                                  ELSE flusher.sent_count,
                                  result.success)
       /\ UNCHANGED <<next_id, file_size>>

\* One iteration of the loop of _send_with_retry(max_retries=1) inside
\* flush_buffer, for the item in hand.
flush_attempt(outcome) ==
    /\ flusher.pc = "sending"
    /\ LET item == flusher.items[flusher.idx]
           response ==
             IF outcome.kind = "central"
             THEN ingest(item.data.endpoint, item.data.payload,
                         outcome.vm_ok, outcome.oo_ok)
             ELSE [status |-> outcome.status, store |-> alert_store,
                   writes |-> written]
           result == send_once_result(response.status, outcome.retry_after)
           last == flusher.attempt = FlushRetries
           again == /\ flusher' = [flusher EXCEPT !.attempt = @ + 1]
                    /\ UNCHANGED bufVars
       IN /\ alert_store' = response.store
          /\ written' = response.writes
          /\ IF result.success
             THEN flush_item_done(result)
             ELSE IF result.status_code = 429 /\ result.retry_after # 0
             THEN IF last THEN flush_item_done(AllFailed) ELSE again
             ELSE IF 400 <= result.status_code /\ result.status_code < 500
             THEN flush_item_done(result)
             ELSE IF last THEN flush_item_done(AllFailed) ELSE again

InitFlusher == flusher = IdleFlusher

\* ------------------------------------------------------------ clock

TickDeltas == {60}

Tick(d) ==
    /\ now + d <= MaxTime
    /\ now' = now + d

\* ----------------------------------------------------- configuration

\* EdgeConfig.agent_id defaults to socket.gethostname(); from_env replaces
\* it by SIDRA_AGENT_ID when that variable is set to a non-empty string.
\* central_retry_count is scaled down from its default.
EdgeConfig == [agent_id |-> Hostname, central_retry_count |-> retry_count]

from_env(SIDRA_AGENT_ID) ==
    IF SIDRA_AGENT_ID # ""
    THEN [EdgeConfig EXCEPT !.agent_id = SIDRA_AGENT_ID]
    ELSE EdgeConfig

\* The values of SIDRA_AGENT_ID: not set, and a name that is not the
\* machine's hostname.
AgentIdEnv == {"", "edge-7"}

\* ------------------------------------------------- collector tasks

\* The tasks start() creates and gathers.
Tasks == {"system", "gpu", "docker", "logs", "services", "batch_sender",
          "buffer_flusher", "health_reporter"}

\* The collector loops that are followed step by step:
\* _collect_system_metrics and _collect_services.
Collectors == {"system", "services"}

\* What collect() of a collector returns, as the MetricPoint its
\* _process_*_metrics builds from it.
CollectedMetrics(c) ==
    IF c = "system"
    THEN {[name |-> "sidra_load_1m", value |-> v, priority |-> "NORMAL"] :
              v \in {0, 500}}
    ELSE {[name |-> "sidra_services_failed_total", value |-> v,
           priority |-> "NORMAL"] : v \in {10}}

\* What check_thresholds of a collector returns when a threshold is crossed.
ThresholdAlerts(c) ==
    IF c = "system"
    THEN <<[metric |-> "cpu_usage", severity |-> "critical", host |-> Hostname]>>
    ELSE <<[metric |-> "service_down", severity |-> "high", host |-> Hostname]>>

\* failed_at: the step at which the loop's body raised last, if it ever did.
IdleCollector ==
    [pc |-> "collect", metrics |-> <<>>, alerts |-> <<>>, failed_at |-> ""]

\* The loops whose position is followed: the collectors and _health_reporter,
\* which starts at its health metric.
Loops == Collectors \cup {"health_reporter"}

IdleCollectors ==
    [c \in Loops |->
        IF c = "health_reporter" THEN [IdleCollector EXCEPT !.pc = "health"]
        ELSE IdleCollector]

InitTasks ==
    /\ collector = IdleCollectors
    /\ tasks = [t \in Tasks |-> "running"]
    /\ start_state = "gathering"
    /\ raised = [c \in Collectors |-> 0]
    /\ error_log = [c \in Collectors |-> 0]

RECURSIVE Sum(_, _)
Sum(f, S) ==
    IF S = {} THEN 0
    ELSE LET x == CHOOSE x \in S : TRUE IN f[x] + Sum(f, S \ {x})

\* Whether one more exception may be raised.
MayRaise == Sum(raised, Collectors) < MaxErrors

\* Mutant of on_exception: the loop has no try/except, so the exception
\* ends the task and gather re-raises it in start().
on_exception_propagates(c, step) ==
    /\ raised' = [raised EXCEPT ![c] = @ + 1]
    /\ collector' = [collector EXCEPT
                        ![c] = [IdleCollector EXCEPT !.pc = "ended",
                                                     !.failed_at = step]]
    /\ tasks' = [tasks EXCEPT ![c] = "failed"]
    /\ start_state' = "raised"
    /\ UNCHANGED error_log

\* `except Exception as e: logger.error(...)` of a collector loop, reached
\* from `step` of the iteration; the loop goes to its sleep.
on_exception(c, step) ==
    /\ raised' = [raised EXCEPT ![c] = @ + 1]
    /\ error_log' = [error_log EXCEPT ![c] = @ + 1]
    /\ collector' = [collector EXCEPT
                        ![c] = [IdleCollector EXCEPT !.pc = "sleep",
                                                     !.failed_at = step]]
    /\ UNCHANGED <<tasks, start_state>>

at(c, pc) == tasks[c] = "running" /\ collector[c].pc = pc

goto(c, pc, metrics, alerts) ==
    /\ collector' = [collector EXCEPT
                        ![c] = [pc |-> pc, metrics |-> metrics, alerts |-> alerts,
                                failed_at |-> collector[c].failed_at]]
    /\ UNCHANGED <<tasks, start_state, raised, error_log>>

\* metrics = await self.<c>_collector.collect()
collect_step(c) ==
    /\ at(c, "collect")
    /\ \/ \E m \in CollectedMetrics(c) : goto(c, "convert", <<m>>, <<>>)
       \/ MayRaise /\ on_exception(c, "collect")
    /\ UNCHANGED <<aggVars, passed>>

\* await self._process_<c>_metrics(metrics)
convert_step(c) ==
    /\ at(c, "convert")
    /\ \/ /\ add_metric(collector[c].metrics[1])
          /\ passed' = <<>>
          /\ goto(c, "thresholds", <<>>, <<>>)
       \/ /\ MayRaise
          /\ on_exception(c, "conversion")
          /\ UNCHANGED <<aggVars, passed>>

\* alerts = self.<c>_collector.check_thresholds(metrics, ...)
thresholds_step(c) ==
    /\ at(c, "thresholds")
    /\ \/ goto(c, "sleep", <<>>, <<>>)
       \/ goto(c, "alerts", <<>>, ThresholdAlerts(c))
       \/ MayRaise /\ on_exception(c, "check_thresholds")
    /\ UNCHANGED <<aggVars, passed>>

\* for alert_data in alerts: await self._process_alert(alert_data)
alert_step(c) ==
    /\ at(c, "alerts")
    /\ LET alert == Head(collector[c].alerts)
           rest  == Tail(collector[c].alerts)
           sends == ret' # None /\ alert.severity \in {"critical", "high"}
       IN \/ /\ add_alert(alert)
             /\ passed' = IF sends THEN <<ret'>> ELSE <<>>
             /\ \/ goto(c, IF rest = <<>> THEN "sleep" ELSE "alerts", <<>>, rest)
                \/ /\ sends
                   /\ MayRaise
                   /\ on_exception(c, "send_batch")
          \/ /\ MayRaise
             /\ on_exception(c, "process_alert")
             /\ UNCHANGED <<aggVars, passed>>

\* await asyncio.sleep(interval), and `while self._running` again
sleep_step(c) ==
    /\ at(c, "sleep")
    /\ goto(c, "collect", <<>>, <<>>)
    /\ UNCHANGED <<aggVars, passed>>

\* ----------------------------------------------------- health reporter

\* health_metric of _health_reporter: value 1 on the scale of the other
\* metric values (tenths).
health_metric == [name |-> "sidra_agent_health", value |-> 10, priority |-> "LOW"]

\* buffer_metric of _health_reporter: stats['total_items'] of the buffer.
buffer_metric ==
    [name |-> "sidra_agent_buffer_items", value |-> Len(buffer) * 10,
     priority |-> "LOW"]

\* await self.aggregator.add_metric(health_metric); what add_metric returns
\* is dropped.
health_step ==
    /\ at("health_reporter", "health")
    /\ add_metric(health_metric)
    /\ passed' = <<>>
    /\ goto("health_reporter", "buffer_items", <<>>, <<>>)

\* stats = await self.buffer.get_stats();
\* await self.aggregator.add_metric(buffer_metric)
buffer_items_step ==
    /\ at("health_reporter", "buffer_items")
    /\ add_metric(buffer_metric)
    /\ passed' = <<>>
    /\ goto("health_reporter", "sleep", <<>>, <<>>)

\* await asyncio.sleep(interval) with interval = 60, and
\* `while self._running` again
health_sleep_step ==
    /\ at("health_reporter", "sleep")
    /\ \E d \in TickDeltas : Tick(d)
    /\ goto("health_reporter", "health", <<>>, <<>>)
    /\ UNCHANGED <<aggVars, passed>>

\* ----------------------------------------------------- log collector
\* A line is the sequence of the words the patterns look for, one byte a
\* word, and a newline; the file is the sequence of its lines.

LEVEL_PATTERNS ==
    << [level |-> "critical", words |-> {"CRITICAL", "kernel panic"}],
       [level |-> "error", words |-> {"ERROR", "authentication fail", "ssl error"}],
       [level |-> "warning", words |-> {"WARNING"}],
       [level |-> "info", words |-> {"INFO"}] >>

NOISE_WORDS == {"healthcheck", "GET /health", "HTTP/1.1 200"}

IMPORTANT_PATTERNS ==
    {"out of memory", "killed process", "segfault", "kernel panic", "disk full",
     "connection refused", "permission denied", "authentication fail",
     "ssl error", "certificate expired"}

search(words, line) == \E i \in 1..Len(line) : line[i] \in words

\* The level of the first pattern of LEVEL_PATTERNS that matches.
_detect_level(line) ==
    LET hits == {i \in 1..Len(LEVEL_PATTERNS) : search(LEVEL_PATTERNS[i].words, line)}
    IN IF hits = {} THEN "info"
       ELSE LEVEL_PATTERNS[CHOOSE i \in hits : \A j \in hits : i <= j].level

\* An empty line, a comment, or a line with a noise word.
_is_noise(line) ==
    \/ line = <<>>
    \/ line[1] = "#"
    \/ search(NOISE_WORDS, line)

_is_important(line) == search(IMPORTANT_PATTERNS, line)

line_bytes(line) == Len(line) + 1

RECURSIVE getsize(_)
getsize(file) ==
    IF file = <<>> THEN 0 ELSE line_bytes(Head(file)) + getsize(Tail(file))

\* f.seek(pos) and `for line in f`: the lines from byte pos on, the first
\* of them from the middle of a line when pos is not the start of one.
RECURSIVE lines_from(_, _)
lines_from(file, pos) ==
    IF file = <<>> THEN <<>>
    ELSE IF pos >= line_bytes(Head(file))
         THEN lines_from(Tail(file), pos - line_bytes(Head(file)))
         ELSE IF pos = 0 THEN file
         ELSE <<SubSeq(Head(file), pos + 1, Len(Head(file)))>> \o Tail(file)

LogPath == "/var/log/syslog"

\* LogEntry(...); message is line.strip()[:500], and no line here has
\* blanks at its ends or 500 characters.
log_entry(line) ==
    [source |-> LogPath, level |-> _detect_level(line), message |-> line]

ReadError ==
    [source |-> LogPath, level |-> "error",
     message |-> <<"Failed to read log file">>]

\* Whether the loop appends an entry for the line.
keeps(line) ==
    /\ ~_is_noise(line)
    /\ \/ _detect_level(line) \in {"error", "critical", "warning"}
       \/ _is_important(line)

\* The loop `for line in f` of _collect_from_file.
RECURSIVE read_loop(_, _, _, _)
read_loop(lines, entries, lines_read, max_lines) ==
    IF lines = <<>>
    THEN [entries |-> entries, lines_read |-> lines_read, broke |-> FALSE]
    ELSE IF Len(entries) >= max_lines
    THEN [entries |-> entries, lines_read |-> lines_read + 1, broke |-> TRUE]
    ELSE read_loop(Tail(lines),
                   IF keeps(Head(lines))
                   THEN Append(entries, log_entry(Head(lines)))
                   ELSE entries,
                   lines_read + 1, max_lines)

\* _collect_from_file(path, max_lines) with the position stored for the
\* path.  After `break` the iterator of the text file is not exhausted, so
\* f.tell() raises OSError ("telling position disabled by next() call"):
\* the handler appends its entry and the stored position stays.
_collect_from_file(file, stored, max_lines) ==
    LET file_size_ == getsize(file)
        last_pos == IF stored > file_size_ THEN 0 ELSE stored
        lines == lines_from(file, last_pos)
        r == read_loop(lines, <<>>, 0, max_lines)
    IN [entries |-> IF r.broke THEN Append(r.entries, ReadError) ELSE r.entries,
        lines_read |-> r.lines_read,
        read |-> SubSeq(lines, 1, r.lines_read),
        position |-> IF r.broke THEN stored ELSE file_size_]

NoCollect == [entries |-> <<>>, lines_read |-> 0, read |-> <<>>]

InitLogCollector ==
    /\ log_file = <<>>
    /\ file_positions = 0
    /\ collected = NoCollect
    /\ truncated = FALSE

\* ----------------------------------------------------- standalone agent
\* The buffer of standalone_agent.py is its own MetricBuffer: a table of
\* (id INTEGER PRIMARY KEY, data, created_at), read in the order of the ids.

\* What collect_metrics returns, told apart by whether it holds alerts.
StandaloneData == {"metrics", "metrics and alerts"}

\* INSERT INTO buffer (data, created_at): the row gets the largest id of the
\* table plus one.
standalone_add(rows, data) ==
    Append(rows, [id |-> IF rows = <<>> THEN 1 ELSE rows[Len(rows)].id + 1,
                  data |-> data])

\* SELECT id, data FROM buffer ORDER BY id LIMIT ?
standalone_get_batch(rows, limit) ==
    SubSeq(rows, 1, IF Len(rows) < limit THEN Len(rows) ELSE limit)

\* DELETE FROM buffer WHERE id IN (...)
standalone_remove(rows, ids) ==
    IF ids = {} THEN rows ELSE SelectSeq(rows, LAMBDA r : r.id \notin ids)

\* send_to_central(data, buffer): True when central answers 200; any
\* exception is caught, the data is added to the buffer, and it is False.
send_to_central(rows, data, ok) ==
    [rows |-> IF ok THEN rows ELSE standalone_add(rows, data), result |-> ok]

\* The loop of flush_buffer over items; outcomes[i] is whether central
\* takes the i-th item.
RECURSIVE resend_items(_, _, _, _, _)
resend_items(rows, items, outcomes, i, sent_ids) ==
    IF i > Len(items) THEN [rows |-> rows, sent_ids |-> sent_ids]
    ELSE LET r == send_to_central(rows, items[i].data, outcomes[i])
         IN resend_items(r.rows, items, outcomes, i + 1,
                         IF r.result THEN sent_ids \cup {items[i].id}
                         ELSE sent_ids)

\* flush_buffer(buffer): the rows of the table when it returns.
standalone_flush_buffer(rows, outcomes) ==
    LET items == standalone_get_batch(rows, get_batch_limit)
    IN IF items = <<>> THEN rows
       ELSE LET r == resend_items(rows, items, outcomes, 1, {})
            IN standalone_remove(r.rows, r.sent_ids)

\* The table is within the bounds the rows and their ids are followed to.
StandaloneBounded(rows) ==
    /\ Len(rows) <= MaxStandaloneRows
    /\ \A i \in 1..Len(rows) : rows[i].id <= MaxStandaloneId

InitStandalone == standalone = [pc |-> "send", rows |-> <<>>]

\* --------------------------------------- specification: aggregator API

InitProgram ==
    /\ now = 0
    /\ InitAggregator
    /\ InitBuffer
    /\ InitSender
    /\ InitCentral
    /\ passed = <<>>
    /\ batch_sender = [pc |-> "sleeping", wake |-> batch_interval]
    /\ InitFlusher
    /\ api_call = NoCall
    /\ InitTasks
    /\ InitLogCollector
    /\ InitStandalone

\* EdgeAgent() without an argument: the configuration comes from the
\* environment, where SIDRA_AGENT_ID is not set.
Init ==
    /\ InitProgram
    /\ config = from_env("")

\* What the aggregator's calls leave alone.
notAggVars == <<bufVars, send, centralVars, passed, batch_sender, flusher, api_call,
                   agentVars, logVars, standalone>>

AggAddMetric ==
    \E m \in MetricPoints : add_metric(m) /\ UNCHANGED <<now, notAggVars>>

AggAddAlert ==
    \E a \in Alerts : add_alert(a) /\ UNCHANGED <<now, notAggVars>>

AggAddLogs ==
    \E ls \in LogLists :
        /\ Len(current_batch.logs) + Len(ls) <= MaxLogs
        /\ add_logs(ls)
        /\ UNCHANGED <<now, notAggVars>>

AggFlush == flush /\ UNCHANGED <<now, notAggVars>>

AggTick == \E d \in TickDeltas : Tick(d) /\ UNCHANGED <<aggVars, notAggVars>>

Next ==
    \/ AggAddMetric
    \/ AggAddAlert
    \/ AggAddLogs
    \/ AggFlush
    \/ AggTick

Spec == Init /\ [][Next]_vars

\* ----------------------------------- specification: alerts over an hour
\* add_alert is called as the clock goes through the longest cooldown of the
\* table in steps of the shortest but one.

CooldownTick ==
    /\ now < CooldownNormal
    /\ now' = now + CooldownHigh
    /\ UNCHANGED <<aggVars, notAggVars>>

NextAlerts ==
    \/ AggAddAlert
    \/ CooldownTick

SpecAlerts == Init /\ [][NextAlerts]_vars

\* ------------------------------- specification: sender, buffer, central

\* The batches the aggregator hands out: an immediate batch is CRITICAL and
\* holds one kind of item; a flushed batch is NORMAL and holds any mix.
SentMetric == [name |-> "sidra_cpu_usage_percent", value |-> 500,
               priority |-> "NORMAL"]
SentAlert(severity) ==
    [metric |-> "cpu_usage", severity |-> severity, host |-> Hostname]
SentLog(level) == [level |-> level, source |-> "syslog"]

\* Batches flush() hands out: metrics only, logs only, and a mix of all three.
FlushedBatches ==
    {[metrics |-> ms, alerts |-> as, logs |-> ls, timestamp |-> now,
      host |-> Hostname, priority |-> "NORMAL"] :
        ms \in {<<SentMetric>>}, as \in {<<>>}, ls \in {<<>>}}
    \cup
    {[metrics |-> <<>>, alerts |-> <<>>, logs |-> <<SentLog("info")>>,
      timestamp |-> now, host |-> Hostname, priority |-> "NORMAL"],
     [metrics |-> <<SentMetric>>, alerts |-> <<SentAlert("warning")>>,
      logs |-> <<SentLog("info")>>,
      timestamp |-> now, host |-> Hostname, priority |-> "NORMAL"]}

\* ... and the immediate batches of add_alert and add_logs.
BatchInputs ==
    FlushedBatches
    \cup
    {create_immediate_batch(<<>>, <<SentAlert("critical")>>),
     [metrics |-> <<>>, alerts |-> <<>>, logs |-> <<SentLog("error")>>,
      timestamp |-> now, host |-> Hostname, priority |-> "CRITICAL"]}

notSendVars == <<aggVars, passed, batch_sender, flusher, api_call,
                   agentVars, logVars, standalone>>

SendBatchStart ==
    \E b \in BatchInputs :
        /\ next_id <= MaxId
        /\ send_batch_start(b)
        /\ UNCHANGED <<now, notSendVars>>

SendAttempt ==
    \E o \in Outcomes : send_attempt(o) /\ UNCHANGED <<now, notSendVars>>

\* A day and a second go by.
SendTick ==
    /\ now = 0
    /\ now' = retention_hours * 3600 + 1
    /\ UNCHANGED <<aggVars, bufVars, send, centralVars, passed, batch_sender,
                   flusher, api_call,
                   agentVars, logVars, standalone>>

NextSend ==
    \/ SendBatchStart
    \/ SendAttempt

SpecSend == Init /\ [][NextSend]_vars


\* ------------------------------------------------ the edge agent's tasks
\* Each action is one awaited aggregator call of a task of EdgeAgent together
\* with what the task does with the value returned.  The call
\* sender.send_batch(batch) is recorded in `passed`; its own steps are
\* send_batch_start and send_attempt above.

notAgentVars == <<bufVars, send, centralVars, batch_sender, flusher, api_call,
                   agentVars, logVars, standalone>>

\* The collectors build their MetricPoints with the default priority.
AgentMetricPoints == {m \in MetricPoints : m.priority = "NORMAL"}

\* await self.aggregator.add_metric(...) in _process_system_metrics (and in
\* the other _process_*_metrics and _health_reporter): the value returned is
\* not bound to anything.
AgentProcessMetrics ==
    \E m \in AgentMetricPoints :
        /\ add_metric(m)
        /\ passed' = <<>>
        /\ UNCHANGED <<now, notAgentVars>>

\* _process_alert
AgentProcessAlert ==
    \E a \in Alerts :
        /\ add_alert(a)
        /\ passed' = IF ret' # None /\ a.severity \in {"critical", "high"}
                     THEN <<ret'>>
                     ELSE <<>>
        /\ UNCHANGED <<now, notAgentVars>>

\* _collect_logs, the critical and error entries of the collected lines
AgentCollectCriticalLogs ==
    \E ls \in LogLists :
        /\ critical_logs(ls) = ls
        /\ add_logs(ls)
        /\ passed' = IF ret' # None THEN <<ret'>> ELSE <<>>
        /\ UNCHANGED <<now, notAgentVars>>

\* _collect_logs, the other entries
AgentCollectOtherLogs ==
    \E ls \in LogLists :
        /\ critical_logs(ls) = <<>>
        /\ Len(current_batch.logs) + Len(ls) <= MaxLogs
        /\ add_logs(ls)
        /\ passed' = <<>>
        /\ UNCHANGED <<now, notAgentVars>>

\* _batch_sender, after its sleep
AgentBatchSender ==
    /\ flush
    /\ passed' = IF ret' # None THEN <<ret'>> ELSE <<>>
    /\ UNCHANGED <<now, notAgentVars>>

AgentTick ==
    \E d \in TickDeltas : Tick(d) /\ UNCHANGED <<aggVars, notAgentVars, passed>>

NextAgent ==
    \/ AgentProcessMetrics
    \/ AgentProcessAlert
    \/ AgentCollectCriticalLogs
    \/ AgentCollectOtherLogs
    \/ AgentBatchSender
    \/ AgentTick

SpecAgent == Init /\ [][NextAgent]_vars


\* ------------------------------------ the batch-sender task on the clock
\* _batch_sender sleeps batch_interval, flushes, and awaits send_batch before
\* it sleeps again; the collectors go on adding meanwhile.  Here the sleeps
\* of the retry chain and a request that runs into its timeout take time.

\* The collector of this scenario reports the load only.
LoadMetricPoints == {m \in AgentMetricPoints : m.name = "sidra_load_1m"}

\* await self.aggregator.add_metric(...) of _process_system_metrics
CollectorAddMetric ==
    \E m \in LoadMetricPoints :
        /\ add_metric(m)
        /\ passed' = <<>>
        /\ UNCHANGED <<now, notAgentVars>>

\* The responses of this scenario: central is healthy when it answers.
BatchSenderOutcomes ==
    {o \in Outcomes : o.kind = "central" => (o.vm_ok /\ o.oo_ok)}

\* await asyncio.sleep(interval) in _batch_sender
BatchSenderSleep ==
    /\ batch_sender.pc = "sleeping"
    /\ now < batch_sender.wake
    /\ now <= MaxTime
    /\ now' = batch_sender.wake
    /\ UNCHANGED <<aggVars, bufVars, send, centralVars, passed, batch_sender,
                   flusher, api_call,
                   agentVars, logVars, standalone>>

\* batch = await self.aggregator.flush(); if batch: send_batch(batch) begins
BatchSenderWake ==
    /\ batch_sender.pc = "sleeping"
    /\ now >= batch_sender.wake
    /\ next_id <= MaxId
    /\ flush
    /\ IF ret' # None
       THEN /\ passed' = <<ret'>>
            /\ send_batch_start(ret')
            /\ batch_sender' = [batch_sender EXCEPT !.pc = "sending"]
       ELSE /\ passed' = <<>>
            /\ batch_sender' = [batch_sender EXCEPT
                                  !.wake = now + batch_interval]
            /\ UNCHANGED <<bufVars, send, centralVars>>
    /\ UNCHANGED <<now, flusher, api_call,
                   agentVars, logVars, standalone>>

\* How long the request of an attempt can take before its outcome is known.
request_seconds(outcome) ==
    IF outcome.kind = "error" THEN {0, timeout} ELSE {0}

\* One attempt of the retry chain the task is waiting for, and the sleep
\* after it; when send_batch returns the task goes back to sleep.
BatchSenderAttempt ==
    /\ batch_sender.pc = "sending"
    /\ \E o \in BatchSenderOutcomes : \E d \in request_seconds(o) :
          /\ send_attempt(o)
          /\ now' = now + d +
                    (IF Len(send'.slept) > Len(send.slept)
                     THEN send'.slept[Len(send'.slept)] ELSE 0)
          /\ batch_sender' =
                IF send'.pc = "done"
                THEN [pc |-> "sleeping", wake |-> now' + batch_interval]
                ELSE batch_sender
    /\ UNCHANGED <<aggVars, passed, flusher, api_call,
                   agentVars, logVars, standalone>>

NextBatchSender ==
    \/ CollectorAddMetric
    \/ BatchSenderSleep
    \/ BatchSenderWake
    \/ BatchSenderAttempt

SpecBatchSender == Init /\ [][NextBatchSender]_vars

\* ----------------------------------------------------------- shutdown
\* A signal makes the agent stop while its tasks run: stop() cancels every
\* task, flushes the aggregator and sends what the flush returned.

Running == batch_sender.pc \in {"sleeping", "sending"}

\* A collector iteration of the running agent.
ShutdownCollect == Running /\ CollectorAddMetric

\* EdgeAgent.stop up to the first await of its send_batch.  task.cancel()
\* raises CancelledError at the await the task is suspended in; for the
\* batch-sender task inside send_batch that is the request or the backoff
\* sleep of _send_with_retry, whose handlers catch Exception only, so the
\* call is left without reaching buffer.add.
AgentStop ==
    /\ Running
    /\ next_id <= MaxId
    /\ batch_sender' =
          [pc |-> "cancelled", wake |-> batch_sender.wake,
           in_flight |-> IF batch_sender.pc = "sending"
                         THEN <<send.batch>> ELSE <<>>]
    /\ flush
    /\ IF ret' # None
       THEN /\ passed' = <<ret'>>
            /\ send_batch_start(ret')
       ELSE /\ passed' = <<>>
            /\ send' = IF send.pc = "sending"
                       THEN [send EXCEPT !.pc = "cancelled"]
                       ELSE send
            /\ UNCHANGED <<bufVars, centralVars>>
    /\ UNCHANGED <<now, flusher, api_call,
                   agentVars, logVars, standalone>>

\* One attempt of the send_batch that stop() awaits.
StopSendAttempt ==
    /\ batch_sender.pc = "cancelled"
    /\ \E o \in BatchSenderOutcomes : \E d \in request_seconds(o) :
          /\ send_attempt(o)
          /\ now' = now + d +
                    (IF Len(send'.slept) > Len(send.slept)
                     THEN send'.slept[Len(send'.slept)] ELSE 0)
    /\ UNCHANGED <<aggVars, passed, flusher, batch_sender, api_call,
                   agentVars, logVars, standalone>>

NextShutdown ==
    \/ ShutdownCollect
    \/ BatchSenderSleep
    \/ BatchSenderWake
    \/ BatchSenderAttempt
    \/ AgentStop
    \/ StopSendAttempt

SpecShutdown == Init /\ [][NextShutdown]_vars

\* ------------------------------------ the buffer, its flusher, a restart
\* Batches whose send_batch failed pile up in the buffer while flush_buffer
\* runs, a day can go by, and the agent process can die and start again.

\* The end of a send_batch whose _send_with_retry failed: buffer.add.
buffer_failed_batch(batch) ==
    buffer_add([endpoint |-> select_endpoint(batch),
                payload |-> serialize_batch(batch),
                timestamp |-> batch.timestamp],
               IF batch.priority = "CRITICAL" THEN 0 ELSE 2)

\* The batches that fail here: one metric, the mix of three items, and the
\* immediate batch of a critical alert.
FailedBatches ==
    {b \in FlushedBatches : b.metrics # <<>>}
    \cup {create_immediate_batch(<<>>, <<SentAlert("critical")>>)}

FlushFeed ==
    /\ next_id <= MaxId
    /\ \E b \in FailedBatches : buffer_failed_batch(b)
    /\ UNCHANGED <<now, aggVars, send, centralVars, passed, batch_sender,
                   flusher, api_call,
                   agentVars, logVars, standalone>>

\* _buffer_flusher calls flush_buffer
FlushBufferStart ==
    /\ \E healthy \in BOOLEAN : flush_buffer_start(healthy)
    /\ UNCHANGED <<now, aggVars, send, passed, batch_sender, api_call,
                   agentVars, logVars, standalone>>

\* What the central server answers to a re-sent item, or the request fails.
FlushOutcomes ==
    {o \in Outcomes : o.kind # "central"}
    \cup {[kind |-> "status", status |-> 200, retry_after |-> 0]}

FlushBufferAttempt ==
    /\ \E o \in FlushOutcomes : flush_attempt(o)
    /\ UNCHANGED <<now, aggVars, send, passed, batch_sender, api_call,
                   agentVars, logVars, standalone>>

\* Mutant of Crash: the rows of the database file do not outlive the process.
Crash_loses_rows ==
    /\ current_batch' = EmptyBatch(Hostname, now)
    /\ batch_start_time' = now
    /\ last_values' = <<>>
    /\ alert_cooldowns' = <<>>
    /\ accepted' = <<>>
    /\ first_item_time' = <<>>
    /\ call' = [op |-> "init", arg |-> None]
    /\ ret' = None
    /\ skipped' = FALSE
    /\ send' = IdleSend
    /\ passed' = <<>>
    /\ batch_sender' = [pc |-> "sleeping", wake |-> now + batch_interval]
    /\ flusher' = IdleFlusher
    /\ UNCHANGED <<api_call, config, log_file, standalone>>
    /\ collector' = IdleCollectors
    /\ tasks' = [t \in Tasks |-> "running"]
    /\ start_state' = "gathering"
    /\ raised' = [c \in Collectors |-> 0]
    /\ error_log' = [c \in Collectors |-> 0]
    /\ file_positions' = 0
    /\ collected' = NoCollect
    /\ truncated' = FALSE
    /\ buffer' = <<>>
    /\ UNCHANGED <<now, next_id, file_size, centralVars>>

\* The process dies and is started again: what lived in memory starts afresh,
\* the database file and the central server are where they were.
Crash ==
    /\ current_batch' = EmptyBatch(Hostname, now)
    /\ batch_start_time' = now
    /\ last_values' = <<>>
    /\ alert_cooldowns' = <<>>
    /\ accepted' = <<>>
    /\ first_item_time' = <<>>
    /\ call' = [op |-> "init", arg |-> None]
    /\ ret' = None
    /\ skipped' = FALSE
    /\ send' = IdleSend
    /\ passed' = <<>>
    /\ batch_sender' = [pc |-> "sleeping", wake |-> now + batch_interval]
    /\ flusher' = IdleFlusher
    /\ UNCHANGED <<now, bufVars, centralVars, api_call,
                   agentVars, logVars, standalone>>

NextFlush ==
    \/ FlushFeed
    \/ FlushBufferStart
    \/ FlushBufferAttempt
    \/ SendTick
    \/ Crash

SpecFlush == Init /\ [][NextFlush]_vars

\* --------------------------------- the flusher called again and again
\* _buffer_flusher calls flush_buffer every five minutes for as long as the
\* agent runs; here central passes every health check, and what it answers
\* to an item is open.

FlushFeedMore ==
    /\ next_id <= MaxBuffered
    /\ \E b \in FailedBatches : buffer_failed_batch(b)
    /\ UNCHANGED <<now, aggVars, send, centralVars, passed, batch_sender,
                   flusher, api_call,
                   agentVars, logVars, standalone>>

FlushBufferStartHealthy ==
    /\ flush_buffer_start(TRUE)
    /\ UNCHANGED <<now, aggVars, send, passed, batch_sender, api_call,
                   agentVars, logVars, standalone>>

NextFlushFair ==
    \/ FlushFeedMore
    \/ FlushBufferStartHealthy
    \/ FlushBufferAttempt

\* The loop of _buffer_flusher never ends and every await of flush_buffer
\* returns: a request ends with a response or with its timeout.
SpecFlushFair ==
    /\ Init
    /\ [][NextFlushFair]_vars
    /\ WF_vars(FlushBufferStartHealthy)
    /\ WF_vars(FlushBufferAttempt)

\* ------------------------------------------- the ingest API on its own
\* Any client posts to the four ingest endpoints; each write to
\* VictoriaMetrics and to OpenObserve succeeds or fails.

\* MetricPoint of the API (ingest_api.py:35-39), with and without a host
\* label of its own.
CentralMetrics ==
    {[name |-> "m", value |-> 10, labels |-> {}],
     [name |-> "m", value |-> 10, labels |-> {<<"host", "h2">>}]}

CentralAlerts ==
    {[metric |-> "cpu_usage", severity |-> "critical", host |-> Hostname],
     [metric |-> "cpu_usage", severity |-> "warning", host |-> ""]}

CentralLogs == {[level |-> "info", source |-> "syslog"]}

\* Request bodies: host given or left at its default, each list empty or not.
CentralPayloads ==
    {[timestamp |-> 0, host |-> h, priority |-> "NORMAL",
      metrics |-> ms, alerts |-> as, logs |-> ls] :
        h \in {"", Hostname},
        ms \in {<<>>} \cup {<<m1, m2>> \in CentralMetrics \X CentralMetrics :
                               m1.labels = {} /\ m2.labels # {}},
        as \in {<<>>} \cup {<<a>> : a \in {a \in CentralAlerts : a.host = ""}}
                      \cup {<<ab[1], ab[2], ab[1]>> :
                               ab \in {x \in CentralAlerts \X CentralAlerts :
                                         x[1].host # "" /\ x[2].host = ""}},
        ls \in {<<>>} \cup {<<l>> : l \in CentralLogs}}

notCentralVars == <<now, aggVars, bufVars, send, passed, batch_sender, flusher,
                    agentVars, logVars, standalone>>

\* The handler of `endpoint` answers a client's request.
respond(endpoint, payload, response) ==
    /\ alert_store' = response.store
    /\ written' = response.writes
    /\ api_call' = [endpoint |-> endpoint, payload |-> payload,
                    status |-> response.status, failed |-> response.failed]
    /\ UNCHANGED notCentralVars

\* The bodies that hold nothing but the list of the endpoint.
OnlyMetrics == {p \in CentralPayloads : p.alerts = <<>> /\ p.logs = <<>>}
OnlyAlerts == {p \in CentralPayloads : p.metrics = <<>> /\ p.logs = <<>>}
OnlyLogs == {p \in CentralPayloads : p.metrics = <<>> /\ p.alerts = <<>>}

PostMetrics ==
    \E p \in OnlyMetrics : \E vm_ok \in BOOLEAN :
        respond("/api/v1/ingest/metrics", p, ingest_metrics(p, vm_ok))

PostAlerts ==
    \E p \in OnlyAlerts : \E oo_ok \in BOOLEAN :
        respond("/api/v1/ingest/alerts", p, ingest_alerts(p, oo_ok))

PostLogs ==
    \E p \in OnlyLogs : \E oo_ok \in BOOLEAN :
        respond("/api/v1/ingest/logs", p, ingest_logs(p, oo_ok))

PostBatch ==
    \E p \in CentralPayloads :
        \E vm_ok \in BOOLEAN, oo_alerts_ok \in BOOLEAN, oo_logs_ok \in BOOLEAN :
            respond("/api/v1/ingest/batch", p,
                    ingest_batch(p, vm_ok, oo_alerts_ok, oo_logs_ok))

NextCentral ==
    \/ PostMetrics
    \/ PostAlerts
    \/ PostLogs
    \/ PostBatch

SpecCentral == Init /\ [][NextCentral]_vars

\* ------------------------------------------- the alert store is read
\* Clients post alerts and read the store back.

\* The counts a client asks for.
RequestedCounts == 0..(alert_store_max_size + 1)

\* A GET handler answers: nothing is written.
answer(endpoint, count, body) ==
    /\ api_call' = [endpoint |-> endpoint, payload |-> [count |-> count],
                    status |-> 200, failed |-> {}, body |-> body]
    /\ UNCHANGED <<centralVars, notCentralVars>>

GetRecentAlerts ==
    \E count \in RequestedCounts :
        answer("/api/v1/alerts/recent", count,
               get_recent_alerts(alert_store, count))

GetCriticalAlerts ==
    \E count \in RequestedCounts :
        answer("/api/v1/alerts/critical", count,
               get_critical_alerts(alert_store, count))

NextAlertStore ==
    \/ PostAlerts
    \/ GetRecentAlerts
    \/ GetCriticalAlerts

SpecAlertStore == Init /\ [][NextAlertStore]_vars

\* ------------------------------------------ the agent's configuration
\* The agent of SpecAgent, built from an environment where SIDRA_AGENT_ID
\* may be set.

InitFromEnv ==
    /\ InitProgram
    /\ \E id \in AgentIdEnv : config = from_env(id)

SpecIdentity == InitFromEnv /\ [][NextAgent]_vars

\* --------------------------------- the sender as it is configured
\* send_batch calls one after the other with central_retry_count at its
\* default: a chain has up to four attempts and three backoff sleeps.

InitDefaults ==
    /\ InitProgram
    /\ config = [from_env("") EXCEPT !.central_retry_count = DefaultRetryCount]

RetryStart ==
    /\ next_id <= MaxId
    /\ send_batch_start(create_immediate_batch(<<>>, <<SentAlert("critical")>>))
    /\ UNCHANGED <<now, notSendVars>>

\* What comes back here: a status or no response, central not looked into.
RetryOutcomes ==
    {o \in Outcomes : o.kind # "central"}
    \cup {[kind |-> "status", status |-> 200, retry_after |-> 0]}

RetryAttempt ==
    \E o \in RetryOutcomes : send_attempt(o) /\ UNCHANGED <<now, notSendVars>>

NextRetry ==
    \/ RetryStart
    \/ RetryAttempt

SpecRetry == InitDefaults /\ [][NextRetry]_vars

\* -------------------------------------------- the collector loops
\* The loops of two collectors side by side, each step one await of the
\* loop's body; any step may raise.

notCollectorVars == <<now, bufVars, send, centralVars, batch_sender, flusher,
                      api_call, config, logVars, standalone>>

CollectorCollect ==
    \E c \in Collectors : collect_step(c) /\ UNCHANGED notCollectorVars

CollectorConvert ==
    \E c \in Collectors : convert_step(c) /\ UNCHANGED notCollectorVars

CollectorThresholds ==
    \E c \in Collectors : thresholds_step(c) /\ UNCHANGED notCollectorVars

CollectorAlert ==
    \E c \in Collectors : alert_step(c) /\ UNCHANGED notCollectorVars

CollectorSleep ==
    \E c \in Collectors : sleep_step(c) /\ UNCHANGED notCollectorVars

NextCollectors ==
    \/ CollectorCollect
    \/ CollectorConvert
    \/ CollectorThresholds
    \/ CollectorAlert
    \/ CollectorSleep

SpecCollectors == Init /\ [][NextCollectors]_vars

\* ------------------------------------------- the log collector's file
\* A writer appends lines to the file and truncates it; the collector
\* reads it.

LogLines ==
    { <<"started">>, <<"ERROR">>, <<"connection refused">>,
      <<"healthcheck", "connection refused">> }

notLogVars == <<now, aggVars, bufVars, send, centralVars, passed,
                batch_sender, flusher, api_call, agentVars, standalone>>

LogAppend ==
    /\ Len(log_file) < MaxFileLines
    /\ \E line \in LogLines : log_file' = Append(log_file, line)
    /\ UNCHANGED <<file_positions, collected, truncated, notLogVars>>

LogTruncate ==
    /\ log_file # <<>>
    /\ log_file' = <<>>
    /\ truncated' = (truncated \/ file_positions = getsize(log_file))
    /\ UNCHANGED <<file_positions, collected, notLogVars>>

\* LogCollector.collect(max_lines) with one path and no Docker logs
LogCollect ==
    /\ LET r == _collect_from_file(log_file, file_positions, max_lines_per_batch)
       IN /\ file_positions' = r.position
          /\ collected' = [entries |-> r.entries, lines_read |-> r.lines_read,
                           read |-> r.read]
    /\ truncated' = FALSE
    /\ UNCHANGED <<log_file, notLogVars>>

\* ---- the file is only appended to

NextLogAppends ==
    \/ LogAppend
    \/ LogCollect

SpecLogAppends == Init /\ [][NextLogAppends]_vars

\* ---- the loop of the standalone agent

notStandaloneVars == <<now, aggVars, bufVars, send, centralVars, passed,
                       batch_sender, flusher, api_call, agentVars, logVars>>

\* data = collect_metrics(); send_to_central(data, buffer)
StandaloneSend ==
    /\ standalone.pc = "send"
    /\ \E data \in StandaloneData, ok \in BOOLEAN :
          LET r == send_to_central(standalone.rows, data, ok)
          IN /\ StandaloneBounded(r.rows)
             /\ standalone' = [pc |-> "flush", rows |-> r.rows]
    /\ UNCHANGED notStandaloneVars

\* flush_buffer(buffer)
StandaloneFlushBuffer ==
    /\ standalone.pc = "flush"
    /\ \E outcomes \in [1..get_batch_limit -> BOOLEAN] :
          LET rows == standalone_flush_buffer(standalone.rows, outcomes)
          IN /\ StandaloneBounded(rows)
             /\ standalone' = [pc |-> "sleep", rows |-> rows]
    /\ UNCHANGED notStandaloneVars

\* time.sleep(COLLECT_INTERVAL), and `while True` again
StandaloneSleep ==
    /\ standalone.pc = "sleep"
    /\ standalone' = [standalone EXCEPT !.pc = "send"]
    /\ UNCHANGED notStandaloneVars

NextStandalone ==
    \/ StandaloneSend
    \/ StandaloneFlushBuffer
    \/ StandaloneSleep

SpecStandalone == Init /\ [][NextStandalone]_vars

\* ---- the health reporter beside the batch sender

notHealthVars == <<bufVars, send, centralVars, batch_sender, flusher, api_call,
                   config, logVars, standalone>>

HealthReporterHealth == health_step /\ UNCHANGED <<now, notHealthVars>>

HealthReporterBufferItems == buffer_items_step /\ UNCHANGED <<now, notHealthVars>>

HealthReporterSleep == health_sleep_step /\ UNCHANGED notHealthVars

NextHealth ==
    \/ HealthReporterHealth
    \/ HealthReporterBufferItems
    \/ HealthReporterSleep
    \/ AgentBatchSender
    \/ AgentProcessMetrics

SpecHealth == Init /\ [][NextHealth]_vars

NextLogs ==
    \/ LogAppend
    \/ LogTruncate
    \/ LogCollect

SpecLogs == Init /\ [][NextLogs]_vars

\* ------------------------------------------------ claims: aggregator

\* A batch holding exactly the given sequences.
Holds(batch, metrics, alerts, logs) ==
    /\ batch # None
    /\ batch.metrics = metrics
    /\ batch.alerts = alerts
    /\ batch.logs = logs

IsAddMetricCall(c) == c.op = "add_metric"
IsAddAlertCall(c) == c.op = "add_alert"
IsAddLogsCall(c) == c.op = "add_logs"

\* C5: every critical or high alert passed to add_alert is returned in an
\* immediate batch, whatever was accepted before it for the same key and
\* however recently (the cooldown never drops it).
C5_CriticalAlertNeverDropped ==
    (IsAddAlertCall(call) /\ call.arg.severity \in {"critical", "high"})
        => Holds(ret, <<>>, <<call.arg>>, <<>>)

\* C7: add_metric(m) with m CRITICAL returns, in the same call, a CRITICAL
\* batch whose metrics are exactly [m] and whose alerts and logs are empty,
\* in every aggregator state; dedup is not applied to m.
C7_CriticalMetricImmediate ==
    (IsAddMetricCall(call) /\ call.arg.priority = "CRITICAL")
        => /\ Holds(ret, <<call.arg>>, <<>>, <<>>)
           /\ ret.priority = "CRITICAL"
           /\ ~skipped

\* C7 witness: a CRITICAL metric was added whose value is within the dedup
\* threshold of the stored last value of its name.
C7_Witness ==
    /\ IsAddMetricCall(call)
    /\ call.arg.priority = "CRITICAL"
    /\ call.arg.name \in DOMAIN last_values
    /\ Abs(call.arg.value - last_values[call.arg.name]) < DedupThreshold
    /\ ret # None

\* The call of this step is on an immediate path.
ImmediateCall(c) ==
    \/ IsAddMetricCall(c) /\ c.arg.priority = "CRITICAL"
    \/ IsAddAlertCall(c) /\ c.arg.severity \in {"critical", "high"}
    \/ /\ IsAddLogsCall(c)
       /\ \E i \in 1..Len(c.arg) : c.arg[i].level \in {"critical", "error"}

\* C8: the immediate paths (add_metric with a CRITICAL metric, add_alert with
\* a critical or high alert, add_logs with a critical/error entry) leave the
\* current batch and its start time unchanged, and add_metric with a CRITICAL
\* metric leaves the dedup last-value map unchanged.
C8_ImmediateLeavesCurrentBatch ==
    [][ /\ ImmediateCall(call')
           => UNCHANGED <<current_batch, batch_start_time>>
        /\ (IsAddMetricCall(call') /\ call'.arg.priority = "CRITICAL")
           => UNCHANGED last_values ]_vars

\* C8 witness: an immediate batch was returned while the current batch was
\* accumulating metrics, alerts and logs.
C8_Witness ==
    /\ ImmediateCall(call)
    /\ ret # None
    /\ ret.priority = "CRITICAL"
    /\ Len(current_batch.metrics) > 0
    /\ Len(current_batch.logs) > 0

\* The cooldown of the spec for the two immediate severities.
ImmediateCooldown(severity) ==
    IF severity = "critical" THEN CooldownCritical ELSE CooldownHigh

\* C9: add_alert(a) with a critical or high and its key not in cooldown
\* returns in the same call a batch holding exactly a, no metrics and no
\* logs, and records the cooldown timestamp of the key.
C9_ImmediateAlertWhenNotInCooldown ==
    [][ ( /\ IsAddAlertCall(call')
          /\ now' = now
          /\ call'.arg.severity \in {"critical", "high"}
          /\ \/ AlertKey(call'.arg) \notin DOMAIN alert_cooldowns
             \/ now - alert_cooldowns[AlertKey(call'.arg)]
                  >= ImmediateCooldown(call'.arg.severity) )
        => /\ Holds(ret', <<>>, <<call'.arg>>, <<>>)
           /\ AlertKey(call'.arg) \in DOMAIN alert_cooldowns'
           /\ alert_cooldowns'[AlertKey(call'.arg)] = now ]_vars

\* C9 witness: a critical alert accepted after the cooldown of an earlier
\* alert for the same key had run out.
C9_Witness ==
    /\ IsAddAlertCall(call)
    /\ call.arg.severity = "critical"
    /\ ret # None
    /\ now >= CooldownCritical
    /\ alert_cooldowns[AlertKey(call.arg)] = now

\* Two add_metric calls in a row, m1 then m2, as C10 describes them.
PercentPair(m1, m2) ==
    /\ m1.name = m2.name
    /\ m1.name \in PercentNames
    /\ Abs(m2.value - m1.value) < DedupThreshold
    /\ m1.priority # "CRITICAL"
    /\ m2.priority # "CRITICAL"

C12_BatchWithinMaxSize ==
    ret # None
        => Len(ret.metrics) + Len(ret.alerts) + Len(ret.logs) <= max_batch_size

\* C13: when the current batch is handed out, no more than max_batch_age
\* plus one scheduling tick (the batch_interval of the batch-sender task) has
\* gone by since its first item went in, also while the batch-sender task is
\* in a failing retry chain and no add call arrives.
C13_BatchAgeBounded ==
    [][ (first_item_time # <<>> /\ first_item_time' = <<>>)
        => now' - first_item_time[1] <= max_batch_age + batch_interval ]_vars

\* The entries of a list with a level of critical or error, and the others.
UrgentLogs(logs) == SelectSeq(logs, LAMBDA l : l.level \in {"critical", "error"})
OtherLogs(logs) == SelectSeq(logs, LAMBDA l : l.level \notin {"critical", "error"})

\* C24: add_logs with a list that mixes critical/error entries and other
\* entries returns an immediate batch with the critical/error entries only,
\* and the other entries of the call join the current batch.
C24_MixedLogsSplit ==
    [][ ( /\ IsAddLogsCall(call')
          /\ now' = now
          /\ UrgentLogs(call'.arg) # <<>>
          /\ OtherLogs(call'.arg) # <<>> )
        => /\ ret' # None
           /\ ret'.logs = UrgentLogs(call'.arg)
           /\ current_batch'.logs = current_batch.logs \o OtherLogs(call'.arg)
      ]_vars

\* The cooldown table as the spec gives it.
StatedCooldown(severity) ==
    CASE severity = "critical" -> 60
      [] severity = "high" -> 300
      [] severity = "warning" -> 900
      [] OTHER -> 3600

\* C25: an alert is dropped exactly when less than its cooldown went by since
\* the alert accepted before it for its key: 60 s for critical, 300 s for
\* high, 900 s for warning, 3600 s for every other severity.
C25_CooldownBySeverity ==
    [][ ( /\ IsAddAlertCall(call')
          /\ now' = now
          /\ AlertKey(call'.arg) \in DOMAIN accepted )
        => (skipped' <=>
              now - accepted[AlertKey(call'.arg)].time
                 < StatedCooldown(call'.arg.severity))
      ]_vars

IsFlushCall(c) == c.op = "flush"

\* C34: flush() returns the current batch exactly when it holds a metric, an
\* alert or a log; after a flush that returned a batch the current batch is
\* empty, has the same host and starts now, and a flush that follows a flush
\* which returned a batch returns none; a flush that returns none changes
\* nothing.
C34_FlushReturnsAndResets ==
    [][ (IsFlushCall(call') /\ now' = now) =>
          /\ ret' # None <=> ~is_batch_empty(current_batch)
          /\ ret' # None =>
                /\ ret' = current_batch
                /\ is_batch_empty(current_batch')
                /\ current_batch'.host = current_batch.host
                /\ current_batch'.timestamp = now
                /\ batch_start_time' = now
          /\ ret' = None =>
                <<current_batch, batch_start_time>>' = <<current_batch, batch_start_time>>
          /\ (IsFlushCall(call) /\ ret # None) => ret' = None
      ]_vars

\* flush() has just returned a batch of metrics and logs that was begun
\* earlier.
C34_Witness ==
    /\ IsFlushCall(call)
    /\ ret # None
    /\ ret.metrics # <<>>
    /\ ret.logs # <<>>
    /\ ret.timestamp < now
    /\ is_batch_empty(current_batch)
    /\ batch_start_time = now

Count(seq, x) == Cardinality({i \in DOMAIN seq : seq[i] = x})

\* The two sequences hold the same items as often.
SameItems(s, t) ==
    /\ Len(s) = Len(t)
    /\ \A i \in DOMAIN s : Count(s, s[i]) = Count(t, s[i])

\* C37: in every aggregator call, whatever calls came before it, the items
\* the call accepted and the items of the current batch are, after the call,
\* either in the batch the call hands out or in the current batch, each as
\* often as before: no item is in two batches and none is lost, so a flush
\* hands out what is left.
C37_EachAcceptedItemInOneBatch ==
    [][ now' = now =>
          LET new(op) == IF call'.op # op \/ skipped' THEN <<>>
                         ELSE IF op = "add_logs" THEN call'.arg
                         ELSE <<call'.arg>>
              out == IF ret' = None THEN EmptyBatch(Hostname, now) ELSE ret'
          IN /\ SameItems(out.metrics \o current_batch'.metrics,
                          current_batch.metrics \o new("add_metric"))
             /\ SameItems(out.alerts \o current_batch'.alerts,
                          current_batch.alerts \o new("add_alert"))
             /\ SameItems(out.logs \o current_batch'.logs,
                          current_batch.logs \o new("add_logs"))
      ]_vars

SendDone == send.pc = "done"

InSeq(x, seq) == \E i \in 1..Len(seq) : seq[i] = x

\* Every item of the batch is among what the request wrote downstream.
FullyWritten(batch) ==
    /\ \A i \in 1..Len(batch.metrics) :
          \E j \in 1..Len(written.tsdb) :
             /\ written.tsdb[j].name = batch.metrics[i].name
             /\ written.tsdb[j].value = batch.metrics[i].value
    /\ \A i \in 1..Len(batch.alerts) : InSeq(batch.alerts[i], written.oo_alerts)
    /\ \A i \in 1..Len(batch.logs) :
          \E j \in 1..Len(written.oo_logs) :
             /\ written.oo_logs[j].level = batch.logs[i].level
             /\ written.oo_logs[j].source = batch.logs[i].source

\* C1: when send_batch(B) returned success, every metric, alert and log of B
\* was written to its downstream sink (TSDB for metrics, event store for
\* alerts and logs), for every mix of items in B.
C1_DeliveredBatchFullyWritten ==
    (SendDone /\ send.result.success) => FullyWritten(send.batch)

IsClientError(status) == 400 <= status /\ status < 500 /\ status # 429

\* C3: when central answers a 4xx other than 429, send_batch stops at that
\* attempt, returns failure carrying the status, and does not append the
\* batch to the buffer: buffer.count() is what it was before the call.
C3_ClientErrorNotBuffered ==
    (SendDone /\ IsClientError(send.result.status_code))
        => /\ ~send.result.success
           /\ send.slept = <<>> => send.attempt = 1
           /\ buffer_count = send.count_before

C2_HandedOutBatchIsSent == ret # None => passed = <<ret>>

\* The row the last INSERT made, if it is still there.
LastRows == {i \in 1..Len(buffer) : buffer[i].id = next_id - 1}

\* C6: when send_batch fails, the row it appends has priority 0 if the batch
\* priority is CRITICAL and 2 otherwise, and records the endpoint selected
\* for the batch; the row of a failed CRITICAL batch (an immediate batch of a
\* critical/high alert or of critical/error logs) is in the buffer with
\* priority 0 when the call returns.
C6_BufferedPriorityAndEndpoint ==
    (SendDone /\ ~send.result.success)
        => /\ \A i \in LastRows :
                /\ buffer[i].priority =
                     (IF send.batch.priority = "CRITICAL" THEN 0 ELSE 2)
                /\ buffer[i].data.endpoint =
                     (IF send.batch.alerts # <<>> THEN "/api/v1/ingest/alerts"
                      ELSE IF send.batch.logs # <<>> THEN "/api/v1/ingest/logs"
                      ELSE "/api/v1/ingest/metrics")
           /\ send.batch.priority = "CRITICAL" => LastRows # {}

\* C6 witness: the immediate batch of a critical alert failed and is in the
\* buffer with priority 0, after the cleanup of a full buffer ran.
C6_Witness ==
    /\ SendDone
    /\ ~send.result.success
    /\ send.batch.priority = "CRITICAL"
    /\ send.batch.alerts # <<>>
    /\ \E i \in LastRows : buffer[i].priority = 0
    /\ send.count_before >= 1

\* A response that _send_with_retry answers with its backoff: a 5xx, or no
\* response at all (network error, timeout).
IsRetryable(r) == r.status_code = 0 \/ r.status_code >= 500

AllResponses(P(_)) == \A i \in 1..Len(send.responses) : P(send.responses[i])

\* C19: one send_batch call makes at most retry_count + 1 HTTP attempts and
\* has returned once it made that many; when every attempt got a 5xx, a
\* network error or a timeout it made exactly retry_count + 1 attempts and
\* returned failure, and a buffer that was empty then holds one item.
C19_BoundedRetry ==
    /\ Len(send.responses) = send.attempt
    /\ send.attempt <= retry_count + 1
    /\ send.pc = "sending" => send.attempt <= retry_count
    /\ (SendDone /\ AllResponses(IsRetryable))
          => /\ send.attempt = retry_count + 1
             /\ ~send.result.success
             /\ send.count_before = 0 => buffer_count = 1

\* C19 witness: central answered 503 to every attempt; the call returned
\* after retry_count + 1 of them and left one item in the buffer.
C19_Witness ==
    /\ SendDone
    /\ AllResponses(LAMBDA r : r.status_code = 503)
    /\ send.attempt = retry_count + 1
    /\ ~send.result.success
    /\ send.count_before = 0
    /\ buffer_count = 1

\* C35: after attempt k (from 0) of a retry chain came back with a 5xx, a
\* network error or a timeout, the sender sleeps retry_delay * 2^k seconds
\* and makes the next attempt when k is not the last attempt, and returns
\* without a sleep when it is.
C35_BackoffDoubles ==
    [][ ( /\ send.pc = "sending"
          /\ Len(send'.responses) = Len(send.responses) + 1
          /\ IsRetryable(send'.responses[Len(send'.responses)]) )
        => IF send.attempt < config.central_retry_count
           THEN /\ send'.pc = "sending"
                /\ send'.attempt = send.attempt + 1
                /\ send'.slept = Append(send.slept, retry_delay * (2 ^ send.attempt))
           ELSE /\ send'.pc = "done"
                /\ send'.slept = send.slept
      ]_vars

\* With the defaults, four attempts answered 503: the sender slept 5, 10 and
\* 20 seconds between them and returned failure.
C35_Witness ==
    /\ SendDone
    /\ config.central_retry_count = 3
    /\ Len(send.responses) = 4
    /\ AllResponses(LAMBDA r : r.status_code = 503)
    /\ send.slept = <<5, 10, 20>>
    /\ ~send.result.success

\* C20: on a 429 with attempts left the sender sleeps the Retry-After value
\* (60 without the header) and goes on to the next attempt, for every
\* Retry-After value, 0 included; the 429 is not a terminal 4xx.
C20_RateLimitRetried ==
    [][ ( /\ send.pc = "sending"
          /\ Len(send'.responses) = Len(send.responses) + 1
          /\ send'.responses[Len(send'.responses)].status_code = 429
          /\ send.attempt < retry_count )
        => /\ send'.pc = "sending"
           /\ send'.attempt = send.attempt + 1
           /\ send'.slept =
                 Append(send.slept,
                        send'.responses[Len(send'.responses)].retry_after)
       ]_vars

\* ------------------------------------------- claims: flush_buffer, restart

\* A step of flush_buffer that is done with the item in hand.
FlushItemFinished ==
    /\ flusher.pc = "sending"
    /\ flusher'.pc \in {"sending", "done"}
    /\ flusher'.pc = "sending" => flusher'.idx = flusher.idx + 1

ItemInHand == flusher.items[flusher.idx]

RowIds(rows) == {rows[i].id : i \in 1..Len(rows)}

RowOf(rows, id) == rows[CHOOSE i \in 1..Len(rows) : rows[i].id = id]

\* C14: within one flush_buffer call the items fetched are re-sent one after
\* the other in the order of (priority ascending, created_at ascending).
C14_ResentInOrder ==
    [][ flusher'.pc = "sending" =>
          IF flusher.pc = "sending"
          THEN /\ flusher'.items = flusher.items
               /\ \/ flusher'.idx = flusher.idx
                  \/ /\ flusher'.idx = flusher.idx + 1
                     /\ LET a == flusher.items[flusher.idx]
                            b == flusher.items[flusher.idx + 1]
                        IN \/ a.priority < b.priority
                           \/ /\ a.priority = b.priority
                              /\ a.created_at <= b.created_at
          ELSE flusher'.idx = 1
      ]_vars

\* C14 witness: the flush is at its second item, a priority-2 item that was
\* buffered before the priority-0 item re-sent first.
C14_Witness ==
    /\ flusher.pc = "sending"
    /\ flusher.idx = 2
    /\ flusher.items[1].priority = 0
    /\ flusher.items[2].priority = 2
    /\ flusher.items[2].created_at < flusher.items[1].created_at

\* C16: flush_buffer removes an item only after the re-send of that very
\* item succeeded; an item whose re-send failed stays in the buffer with its
\* retry_count one higher (as far as it is counted) and last_retry set to
\* the time of the failure.
C16_RemoveOnlyAfterSuccess ==
    [][ FlushItemFinished =>
          LET id == ItemInHand.id
          IN /\ \A gone \in RowIds(buffer) \ RowIds(buffer') :
                   gone = id /\ flusher'.last_success
             /\ flusher'.last_success => id \notin RowIds(buffer')
             /\ (~flusher'.last_success /\ id \in RowIds(buffer)) =>
                   /\ id \in RowIds(buffer')
                   /\ RowOf(buffer', id).last_retry = now
                   /\ RowOf(buffer', id).retry_count =
                         IF RowOf(buffer, id).retry_count < MaxRetryCount
                         THEN RowOf(buffer, id).retry_count + 1
                         ELSE MaxRetryCount
      ]_vars

\* C16 witness: the re-send of an item has failed, and the item is in the
\* buffer with a retry mark.
C16_Witness ==
    /\ flusher.pc = "sending"
    /\ flusher.idx = 2
    /\ ~flusher.last_success
    /\ \E i \in 1..Len(buffer) :
          /\ buffer[i].id = flusher.items[1].id
          /\ buffer[i].retry_count = 1
          /\ buffer[i].last_retry = now

\* C17: _cleanup_if_needed, which runs at the end of add, never deletes an
\* item of priority 0 or 1, whatever its age and whatever the buffer size.
C17_CleanupKeepsHighPriority ==
    [][ next_id' # next_id =>
          \A i \in 1..Len(buffer) :
              buffer[i].priority <= 1 => buffer[i].id \in RowIds(buffer')
      ]_vars

\* The most space a row added here takes.
LargestRow ==
    CHOOSE n \in {Len(b.metrics) + Len(b.alerts) + Len(b.logs) : b \in FailedBatches} :
        \A b \in FailedBatches : Len(b.metrics) + Len(b.alerts) + Len(b.logs) <= n

\* C32: the cleanup at the end of add deletes a row that has not expired (the
\* row just added included) only when the rows that have not expired are
\* over the budget by themselves: when the expired rows account for the
\* excess, every other row stays.
C32_CleanupStaged ==
    [][ next_id' # next_id =>
          LET unexpired == delete_older(buffer, now - retention_hours * 3600)
              lost == \/ \E i \in 1..Len(unexpired) :
                            unexpired[i].id \notin RowIds(buffer')
                      \/ next_id \notin RowIds(buffer')
          IN lost => rows_size(unexpired) + LargestRow >= max_size_items
      ]_vars

\* C33: a flush_buffer whose health check fails returns 0 and leaves the
\* buffer and central as they are; an item is re-sent only in a call whose
\* health check succeeded.
C33_UnhealthyFlushDoesNothing ==
    [][ /\ flusher'.pc = "sending" => flusher'.healthy
        /\ ( /\ flusher.pc # "sending"
             /\ flusher' # flusher
             /\ flusher'.pc = "done"
             /\ ~flusher'.healthy )
           => /\ flusher'.sent_count = 0
              /\ flusher'.items = <<>>
              /\ buffer' = buffer
              /\ <<next_id, file_size, alert_store, written>>'
                    = <<next_id, file_size, alert_store, written>>
      ]_vars

\* flush_buffer returned after a failed health check, with rows in the
\* buffer that were never marked.
C33_Witness ==
    /\ flusher.pc = "done"
    /\ ~flusher.healthy
    /\ flusher.sent_count = 0
    /\ buffer # <<>>
    /\ \A i \in 1..Len(buffer) : buffer[i].retry_count = 0

\* The row `id` has left the buffer because flush_buffer got a success
\* response for it.
Acknowledged(id) ==
    /\ FlushItemFinished
    /\ ItemInHand.id = id
    /\ flusher'.last_success

RetryMarked(id) ==
    /\ id \in RowIds(buffer)
    /\ RowOf(buffer, id).retry_count >= 1
    /\ ~(flusher.pc = "sending" /\ ItemInHand.id = id)

\* flush_buffer is re-sending the item `id`, or the item has left the buffer.
Reattempted(id) ==
    \/ id \notin RowIds(buffer)
    \/ flusher.pc = "sending" /\ ItemInHand.id = id

\* C18: with flush_buffer called again and again and central healthy, every
\* item that stays in the buffer after mark_retry is re-sent by a later
\* flush_buffer call, however many items keep failing ahead of it.
C18_MarkedEventuallyRetried ==
    \A id \in 1..MaxBuffered : RetryMarked(id) ~> Reattempted(id)

\* ----------------------------------------------- claims: ingest API

\* C21: an ingest endpoint answers 5xx whenever a write to VictoriaMetrics
\* or to OpenObserve that the request triggered failed, partial success
\* included, and answers 2xx only if every triggered write succeeded.
C21_FailedWriteAnswers5xx ==
    api_call.endpoint # "" =>
        /\ api_call.failed # {} => api_call.status >= 500
        /\ api_call.status < 300 => api_call.failed = {}

HasHostLabel(labels) == \E kv \in labels : kv[1] = "host"

MetricsEndpoints == {"/api/v1/ingest/metrics", "/api/v1/ingest/batch"}

AddedAlerts(request) ==
    IF request.endpoint \in {"/api/v1/ingest/alerts", "/api/v1/ingest/batch"}
    THEN request.payload.alerts
    ELSE <<>>

C36_AtMostCountAlerts ==
    api_call.endpoint \in {"/api/v1/alerts/recent", "/api/v1/alerts/critical"} =>
        LET n == api_call.payload.count
            from == IF api_call.endpoint = "/api/v1/alerts/recent"
                    THEN alert_store
                    ELSE SelectSeq(alert_store, LAMBDA a : a.severity = "critical")
            m == Min(n, Len(from))
        IN /\ api_call.body.count <= n
           /\ api_call.body.count = Len(api_call.body.alerts)
           /\ api_call.body.alerts = SubSeq(from, Len(from) - m + 1, Len(from))

\* ------------------------------------------------ claims: the agent

\* C26: when stop() cancelled the batch-sender task inside a send_batch call,
\* the batch of that call is not lost: once the agent has stopped it was
\* delivered or it is in the buffer.  (A delivered batch ends the call, so a
\* call that was cancelled had not delivered it.)
C26_CancelledSendNotLost ==
    ( /\ batch_sender.pc = "cancelled"
      /\ batch_sender.in_flight # <<>>
      /\ send.pc # "sending" )
        => \E i \in 1..Len(buffer) :
              buffer[i].data.payload = serialize_batch(batch_sender.in_flight[1])


\* ------------------------------------------- claims: collector loops

\* C27: an exception raised in an iteration of a collector loop, at collect,
\* at the conversion, at the threshold check, in the processing of an alert
\* or in the send it triggers, is logged by that loop, which goes to its
\* sleep before its next iteration; every supervisor task stays running and
\* start() stays in its gather.
C27_CollectorFailuresStayLocal ==
    [][ \A c \in Collectors :
          raised'[c] > raised[c] =>
              /\ error_log'[c] = error_log[c] + 1
              /\ collector'[c].pc = "sleep"
              /\ \A t \in Tasks : tasks'[t] = "running"
              /\ start_state' = "gathering" ]_vars

\* The send triggered by an alert of the system collector raised; the loop
\* is in its next iteration, and the services collector is in the middle of
\* one of its own.
C27_Witness ==
    /\ collector["system"].failed_at = "send_batch"
    /\ raised["system"] = 1
    /\ collector["system"].pc = "convert"
    /\ collector["services"].pc = "alerts"
    /\ \A t \in Tasks : tasks[t] = "running"

\* C28: every batch given to the sender carries the configured agent_id as
\* its host, and so does every metric and alert in it.
C28_HostIsAgentId ==
    \A i \in 1..Len(passed) :
        LET sent == serialize_batch(passed[i])
        IN /\ sent.host = config.agent_id
           /\ \A k \in 1..Len(sent.metrics) :
                  <<"host", config.agent_id>> \in sent.metrics[k].labels
           /\ \A k \in 1..Len(sent.alerts) :
                  sent.alerts[k].host = config.agent_id

\* -------------------------------------------- claims: log collector

\* C29: when the file was truncated after the collector had read it to its
\* end and holds k new lines at the next collect, that collect reads exactly
\* those k lines, from the first byte of the file.
C29_RotatedFileReadFromStart ==
    [][ (truncated /\ ~truncated') =>
            /\ collected'.read = log_file
            /\ collected'.lines_read = Len(log_file) ]_vars

\* C30: every line a collect read that matches an always-retain pattern has
\* an entry among the entries the collect returned.
C30_ImportantLinesEmitted ==
    \A i \in 1..Len(collected.read) :
        _is_important(collected.read[i]) =>
            \E k \in 1..Len(collected.entries) :
                collected.entries[k].message = collected.read[i]

\* ------------------------------------------------ claims: health reporter

\* The health reporter has just handed its heartbeat to add_metric.
HeartbeatAdded ==
    /\ collector["health_reporter"].pc = "health"
    /\ collector'["health_reporter"].pc = "buffer_items"

\* C38: every heartbeat the health reporter adds, in the first cycle and in
\* every later one, is accepted by the aggregator: it is not skipped, and it
\* is in the current batch or in the batch add_metric hands out.
C38_HeartbeatAcceptedEveryCycle ==
    [][ HeartbeatAdded =>
          /\ ~skipped'
          /\ \/ \E i \in 1..Len(current_batch'.metrics) :
                   current_batch'.metrics[i] = health_metric
             \/ /\ ret' # None
                /\ \E i \in 1..Len(ret'.metrics) : ret'.metrics[i] = health_metric
      ]_vars

\* C38 in the first cycle only, where nothing is stored for the name yet.
C38_FirstHeartbeatAccepted ==
    [][ HeartbeatAdded /\ health_metric.name \notin DOMAIN last_values =>
          ~skipped' ]_vars

\* ------------------------------------------------ claims: log positions

\* The entries of the lines that pass the filters, in the order of the lines.
RECURSIVE entries_of(_)
entries_of(lines) ==
    IF lines = <<>> THEN <<>>
    ELSE (IF keeps(Head(lines)) THEN <<log_entry(Head(lines))>> ELSE <<>>)
         \o entries_of(Tail(lines))

\* A collect of the first k pending lines: it returns one entry for each of
\* them that passes the filters and nothing else, and the stored position
\* moves past exactly these k lines.
ConsumesOnce(k) ==
    LET pending == lines_from(log_file, file_positions)
        consumed == SubSeq(pending, 1, k)
    IN /\ collected'.entries = entries_of(consumed)
       /\ file_positions' = file_positions + getsize(consumed)

\* C39: on a file that is only appended to, every collect consumes a prefix
\* of the pending lines once, and it stops before the end of the file only
\* when it holds max_lines entries.
C39_EachLineEmittedOnce ==
    [][ log_file' = log_file =>
          \E k \in 0..Len(lines_from(log_file, file_positions)) :
              /\ ConsumesOnce(k)
              /\ \/ k = Len(lines_from(log_file, file_positions))
                 \/ Len(collected'.entries) >= max_lines_per_batch
      ]_vars

\* C39 for the collects that do not stop at the max_lines limit.
C39_EachLineEmittedOnceBelowLimit ==
    [][ /\ log_file' = log_file
        /\ ~read_loop(lines_from(log_file, file_positions), <<>>, 0,
                      max_lines_per_batch).broke
        => ConsumesOnce(Len(lines_from(log_file, file_positions)))
      ]_vars

\* ------------------------------------------------ claims: standalone agent

\* C40: a flush_buffer call of the standalone agent leaves at most as many
\* rows in the buffer as it found.
C40_FlushNeverGrowsBuffer ==
    [][ standalone.pc = "flush" /\ standalone'.pc = "sleep" =>
          Len(standalone'.rows) <= Len(standalone.rows) ]_vars

\* C40 for the flushes in which central takes every item re-sent.
C40_FlushWithCentralUpShrinksBuffer ==
    [][ /\ standalone.pc = "flush" /\ standalone'.pc = "sleep"
        /\ standalone'.rows =
             standalone_flush_buffer(standalone.rows,
                                     [i \in 1..get_batch_limit |-> TRUE])
        => Len(standalone'.rows) <= Len(standalone.rows) ]_vars

====
